---- MODULE Spec2Model ----
(***************************************************************************)
(* Calorigram bot: the per-user session state machine, the access gate     *)
(* and the analysis extractor, as a state machine over the handlers of     *)
(* src/bot_functions.py and the storage functions of src/database.py.      *)
(*                                                                         *)
(* Conventions.                                                            *)
(*  - Optional[T] is a set with at most one element: None is {}.           *)
(*  - A text typed by a user is a sequence of one-character strings.       *)
(*  - A text returned by the inference service is a sequence of tokens     *)
(*    (see Tok below); the Russian phrases of the source are named in      *)
(*    ASCII.                                                               *)
(*  - context.user_data is a record of fixed shape: every flag is read in  *)
(*    the source with .get(key, False), so a missing flag and a False one  *)
(*    are the same value here; a missing registration_step / selected_meal *)
(*    is "none", a missing user_data is NoData.                            *)
(*  - A handler runs as one step (python-telegram-bot handles one update   *)
(*    at a time unless concurrent_updates is set; main.py does not set     *)
(*    it), except the handlers of a photo, a food text and a voice         *)
(*    message, which are cut at their awaits of the inference service:     *)
(*    the clock moves while they are suspended.                            *)
(*  - Instants are integers, TicksPerDay of them in a calendar day.        *)
(*  - A button can be pressed whenever the updates arrive: the messages    *)
(*    that carry the buttons stay in the chat, and no handler looks at     *)
(*    which message a callback comes from.                                 *)
(***************************************************************************)
EXTENDS Integers, Sequences, FiniteSets, Bags, TLC

\* ---------------------------------------------------------------- constants.py
MIN_AGE == 1
MAX_AGE == 120
MIN_HEIGHT == 50
MAX_HEIGHT == 250
MIN_WEIGHT == 20
MAX_WEIGHT == 300
ADMIN_IDS == {160308091}

\* literals of the source
DAILY_CHECK_LIMIT == 3
MIN_CALORIES == 10
MAX_CALORIES == 10000
TRIAL_ACTIVATION_DAYS == 1
PREMIUM_ACTIVATION_DAYS == 30

\* ---------------------------------------------------------------- bounds
\* clock ticks in one calendar day, and the last instant of a run
TicksPerDay == 2
MaxTime == 3
\* rows the tables meals and calorie_checks may hold
MaxMeals == 2
MaxChecks == 4

\* ---------------------------------------------------------------- handles
Admin == CHOOSE a \in ADMIN_IDS : TRUE
\* the handles that use the bot as ordinary users: one, whose decimal
\* spelling "70" is also a valid age, height, weight and name
Actors == {70}
Member == CHOOSE u \in Actors : TRUE
Users == ADMIN_IDS \cup Actors

\* ---------------------------------------------------------------- texts
\* A text typed by a user is a sequence of characters.  The module being
\* ASCII, a decimal digit of another script (Arabic-Indic, fullwidth, ...) is
\* written "#" and its value: int(), float() and \d take it as they take the
\* ASCII digit.
Digit == {"0", "1", "2", "3", "4", "5", "6", "7", "8", "9",
          "#0", "#1", "#2", "#3", "#4", "#5", "#6", "#7", "#8", "#9"}

DigitVal(c) ==
    CASE c \in {"0", "#0"} -> 0 [] c \in {"1", "#1"} -> 1 [] c \in {"2", "#2"} -> 2
      [] c \in {"3", "#3"} -> 3 [] c \in {"4", "#4"} -> 4 [] c \in {"5", "#5"} -> 5
      [] c \in {"6", "#6"} -> 6 [] c \in {"7", "#7"} -> 7 [] c \in {"8", "#8"} -> 8
      [] c \in {"9", "#9"} -> 9

RECURSIVE DigitsVal(_)
DigitsVal(s) ==
    IF s = <<>> THEN 0
    ELSE 10 * DigitsVal(SubSeq(s, 1, Len(s) - 1)) + DigitVal(s[Len(s)])

\* \d+
AllDigits(s) == Len(s) > 0 /\ \A i \in 1..Len(s) : s[i] \in Digit

\* The whitespace int() and float() skip around a number: the blank, the
\* tab, the line feed, the carriage return, the form feed and the vertical
\* tab (written as the character itself), and "#s", which stands for a space
\* outside ASCII (U+0085, U+00A0, U+1680, U+2000 to U+200A, U+2028, U+2029,
\* U+202F, U+205F, U+3000).
NumberWhite == {" ", "\t", "\n", "\r", "\f", "", "#s"}

\* the whitespace of str.strip(), str.isspace() and \s: the same and the four
\* separators U+001C to U+001F (written as the characters themselves), which
\* int() and float() do not skip
White == NumberWhite \cup {"", "", "", ""}

\* s without the characters of the set at its two ends
RECURSIVE Stripped(_, _)
Stripped(s, set) ==
    IF s # <<>> /\ s[1] \in set THEN Stripped(Tail(s), set)
    ELSE IF s # <<>> /\ s[Len(s)] \in set THEN Stripped(SubSeq(s, 1, Len(s) - 1), set)
    ELSE s

\* str.strip()
Strip(s) == Stripped(s, White)

\* the digits of a numeric literal: single underscores may stand between them
DigitPart(s) ==
    /\ s # <<>> /\ s[1] \in Digit /\ s[Len(s)] \in Digit
    /\ \A i \in 1..Len(s) : s[i] \in Digit \cup {"_"}
    /\ \A i \in 1..(Len(s) - 1) : ~(s[i] = "_" /\ s[i + 1] = "_")

\* int(text): whitespace around, an optional sign, then digits; anything else
\* raises ValueError (ok = FALSE)
py_int(text) ==
    LET t == Stripped(text, NumberWhite)
        signed == t # <<>> /\ t[1] \in {"+", "-"}
        body == IF signed THEN Tail(t) ELSE t
        IsDigit(c) == c \in Digit
        n == DigitsVal(SelectSeq(body, IsDigit))
    IN  IF DigitPart(body)
        THEN [ok |-> TRUE, val |-> IF signed /\ t[1] = "-" THEN 0 - n ELSE n]
        ELSE [ok |-> FALSE, val |-> 0]

\* ---------------------------------------------------------------- letters
\* A small Cyrillic letter is written as the capital Latin letters of its
\* transliteration, in the order of the alphabet A B V G D E YO Z (zh) ZE I
\* J (short i) K L M N O P R S T U F H (kh) C (ts) X (ch) W (sh) SC (shch)
\* HS (hard sign) Y (yery) SS (soft sign) EH YU Q (ya); a small Latin letter
\* as itself; a capital letter of either alphabet with "^" before its small
\* letter.
\* the table of its pairs <<capital, small letter>>
LetterTable(pairs) ==
    [c \in {pairs[i][1] : i \in DOMAIN pairs} |->
        pairs[CHOOSE i \in DOMAIN pairs : pairs[i][1] = c][2]]

Capitals ==
    LetterTable(<<
        <<"^A", "A">>, <<"^B", "B">>, <<"^V", "V">>, <<"^G", "G">>,
        <<"^D", "D">>, <<"^E", "E">>, <<"^YO", "YO">>, <<"^Z", "Z">>,
        <<"^ZE", "ZE">>, <<"^I", "I">>, <<"^J", "J">>, <<"^K", "K">>,
        <<"^L", "L">>, <<"^M", "M">>, <<"^N", "N">>, <<"^O", "O">>,
        <<"^P", "P">>, <<"^R", "R">>, <<"^S", "S">>, <<"^T", "T">>,
        <<"^U", "U">>, <<"^F", "F">>, <<"^H", "H">>, <<"^C", "C">>,
        <<"^X", "X">>, <<"^W", "W">>, <<"^SC", "SC">>, <<"^HS", "HS">>,
        <<"^Y", "Y">>, <<"^SS", "SS">>, <<"^EH", "EH">>, <<"^YU", "YU">>,
        <<"^Q", "Q">>, <<"^a", "a">>, <<"^b", "b">>, <<"^c", "c">>,
        <<"^d", "d">>, <<"^e", "e">>, <<"^f", "f">>, <<"^g", "g">>,
        <<"^h", "h">>, <<"^i", "i">>, <<"^j", "j">>, <<"^k", "k">>,
        <<"^l", "l">>, <<"^m", "m">>, <<"^n", "n">>, <<"^o", "o">>,
        <<"^p", "p">>, <<"^q", "q">>, <<"^r", "r">>, <<"^s", "s">>,
        <<"^t", "t">>, <<"^u", "u">>, <<"^v", "v">>, <<"^w", "w">>,
        <<"^x", "x">>, <<"^y", "y">>, <<"^z", "z">> >>)

\* str.lower()
py_lower(s) ==
    LET lower(c, table) == IF c \in DOMAIN table THEN table[c] ELSE c
    IN  [i \in 1..Len(s) |-> lower(s[i], Capitals)]

\* ---------------------------------------------------------------- floats
\* A Python float is an IEEE 754 double: [cls, s, m, e] is s * m * 2^e, with
\* cls "fin", "inf" or "nan", s the sign (zero has s = 1: the sign of zero is
\* not kept), and m a natural number below 2^53, of 53 bits unless e is -1074
\* (a subnormal).  m and the intermediate numbers are written in base 2^14,
\* lowest digit first, without leading zeros, so that TLC's 32-bit integers
\* hold every product of two digits.
Limb == 16384

\* the carries of the digits x taken up, from the carry c on: the digits
\* and the carry out
RECURSIVE Carried(_, _)
Carried(x, c) ==
    IF Len(x) = 0 THEN [d |-> <<>>, c |-> c]
    ELSE IF Len(x) = 1
    THEN [d |-> <<(x[1] + c) % Limb>>, c |-> (x[1] + c) \div Limb]
    ELSE LET low == Carried(SubSeq(x, 1, Len(x) \div 2), c)
             high == Carried(SubSeq(x, Len(x) \div 2 + 1, Len(x)), low.c)
         IN  [d |-> low.d \o high.d, c |-> high.c]

\* x without its leading zeros
Trimmed(x) ==
    LET set == {i \in 1..Len(x) : x[i] # 0}
    IN  SubSeq(x, 1, IF set = {} THEN 0 ELSE CHOOSE i \in set : \A j \in set : j <= i)

\* the digits of the number whose digits in base Limb, before the carries,
\* are a, plus carry
Big(a, carry) == Trimmed(Carried(a \o <<0, 0, 0>>, carry).d)

BigMul(a, b) ==
    LET RECURSIVE column(_, _)
        column(k, i) ==
            IF i > Len(a) THEN 0
            ELSE (IF k + 1 - i \in 1..Len(b) THEN a[i] * b[k + 1 - i] ELSE 0)
                 + column(k, i + 1)
    IN  Big([k \in 1..(Len(a) + Len(b)) |-> column(k, 1)], 0)

\* a + f * b for f = 1 and, when a >= b, for f = -1
BigSum(a, b, f) ==
    Big([i \in 1..(IF Len(a) > Len(b) THEN Len(a) ELSE Len(b)) |->
            (IF i <= Len(a) THEN a[i] ELSE 0) + f * (IF i <= Len(b) THEN b[i] ELSE 0)], 0)

\* the digits x, highest first, divided by the small number d from the
\* remainder r on: quotient, highest digit first, and remainder
RECURSIVE Divided(_, _, _)
Divided(x, r, d) ==
    IF Len(x) = 0 THEN [q |-> <<>>, r |-> r]
    ELSE IF Len(x) = 1
    THEN [q |-> <<(r * Limb + x[1]) \div d>>, r |-> (r * Limb + x[1]) % d]
    ELSE LET high == Divided(SubSeq(x, 1, Len(x) \div 2), r, d)
             low == Divided(SubSeq(x, Len(x) \div 2 + 1, Len(x)), high.r, d)
         IN  [q |-> high.q \o low.q, r |-> low.r]

Reversed(x) == [i \in 1..Len(x) |-> x[Len(x) + 1 - i]]

\* a divided by the small number d: quotient and remainder
BigDiv(a, d) ==
    LET quotient(all) == [q |-> Big(Reversed(all.q), 0), r |-> all.r]
    IN  quotient(Divided(Reversed(a), 0, d))

\* a * 2^k, rounded down when k < 0
BigShift(a, k) ==
    LET q == (0 - k) \div 14
        r == (0 - k) % 14
    IN  Big(IF k >= 0
            THEN [i \in 1..(k \div 14) |-> 0] \o [i \in 1..Len(a) |-> a[i] * 2^(k % 14)]
            ELSE [i \in 1..(Len(a) - q) |->
                    (a[i + q] \div 2^r)
                    + (IF i + q < Len(a) THEN (a[i + q + 1] % 2^r) * 2^(14 - r) ELSE 0)],
            0)

\* 1, 0 or -1 as a is above, equal to or below b
BigCmp(a, b) ==
    LET set == {i \in 1..Len(a) : i > Len(b) \/ a[i] # b[i]}
        above(top) == top > Len(b) \/ a[top] > b[top]
    IN  IF Len(a) < Len(b) THEN 0 - 1
        ELSE IF set = {} THEN 0
        ELSE IF above(CHOOSE i \in set : \A j \in set : j <= i) THEN 1 ELSE 0 - 1

BigBits(a) ==
    IF a = <<>> THEN 0
    ELSE 14 * (Len(a) - 1) + (CHOOSE k \in 1..14 : 2^(k - 1) <= a[Len(a)] /\ a[Len(a)] < 2^k)

\* the bit n of a, the lowest one being the bit 0
BigBit(a, n) == n \div 14 < Len(a) /\ (a[n \div 14 + 1] \div 2^(n % 14)) % 2 = 1

\* a has a bit below the bit n
BigLow(a, n) ==
    \E i \in 1..Len(a) : \/ i <= n \div 14 /\ a[i] # 0
                         \/ i = n \div 14 + 1 /\ a[i] % 2^(n % 14) # 0

\* zero, an infinity or the nan
Special(cls, s) == [cls |-> cls, s |-> s, m |-> <<>>, e |-> 0]

\* the float s * m * 2^x of a mantissa that fits: zero, or an infinity when
\* the exponent is out of range
Packed(s, m, x) ==
    IF m = <<>> THEN Special("fin", 1)
    ELSE IF x + BigBits(m) > 1024 THEN Special("inf", s)
    ELSE [cls |-> "fin", s |-> s, m |-> m, e |-> x]

\* a mantissa that rounding up has taken to 54 bits loses one more
Fitted(s, R, x) ==
    LET long == BigBits(R) = 54
    IN  Packed(s, IF long THEN BigShift(R, 0 - 1) ELSE R, IF long THEN x + 1 ELSE x)

\* A is cut by sh low bits (sh <= 0: none is cut and A is shifted up) and Q
\* is what is left.  The first bit cut rounds up when a lower bit is set,
\* and to the even mantissa when none is
Rounded(s, A, e, sh, Q) ==
    LET up == /\ sh > 0
              /\ BigBit(A, sh - 1)
              /\ BigLow(A, sh - 1) \/ BigBit(Q, 0)
    IN  Fitted(s, IF up THEN Big(Q, 1) ELSE Q, e + sh)

\* the double nearest to s * A * 2^e, ties to the even one: the mantissa
\* keeps 53 bits, fewer when the exponent would fall below -1074; beyond
\* the largest exponent the result is an infinity
FRound(s, A, e) ==
    LET bits == BigBits(A)
        sh == IF bits - 53 >= 0 - 1074 - e THEN bits - 53 ELSE 0 - 1074 - e
    IN  Rounded(s, A, e, sh, BigShift(A, 0 - sh))

\* float(n) of an integer
Float(n) == FRound(IF n < 0 THEN 0 - 1 ELSE 1, Big(<<IF n < 0 THEN 0 - n ELSE n>>, 0), 0)

\* a * b
FMul(a, b) ==
    IF a.cls = "nan" \/ b.cls = "nan" THEN Special("nan", 1)
    ELSE IF a.cls = "inf" \/ b.cls = "inf"
    THEN IF (a.cls = "fin" /\ a.m = <<>>) \/ (b.cls = "fin" /\ b.m = <<>>)
         THEN Special("nan", 1) ELSE Special("inf", a.s * b.s)
    ELSE FRound(a.s * b.s, BigMul(a.m, b.m), a.e + b.e)

\* sa * A * 2^e + sb * B * 2^e: the mantissas are added, or the smaller is
\* taken from the larger (c is 1 when the signs agree and BigCmp(A, B) when
\* they do not)
SumOf(sa, A, sb, B, e, c) ==
    IF c = 0 THEN Special("fin", 1)
    ELSE FRound(IF c = 1 THEN sa ELSE sb,
                BigSum(IF c = 1 THEN A ELSE B, IF c = 1 THEN B ELSE A,
                       IF c = 1 THEN sa * sb ELSE 0 - 1),
                e)

\* the sum of two finite floats, the mantissas A and B brought to the
\* exponent e
Aligned(sa, A, sb, B, e) == SumOf(sa, A, sb, B, e, IF sa = sb THEN 1 ELSE BigCmp(A, B))

\* a + b: the mantissas are brought to the smaller exponent e
FAdd(a, b) ==
    LET e == IF a.e < b.e THEN a.e ELSE b.e
    IN  IF a.cls = "nan" \/ b.cls = "nan" THEN Special("nan", 1)
        ELSE IF a.cls = "inf"
        THEN IF b.cls = "inf" /\ b.s # a.s THEN Special("nan", 1) ELSE a
        ELSE IF b.cls = "inf" THEN b
        ELSE Aligned(a.s, BigShift(a.m, a.e - e), b.s, BigShift(b.m, b.e - e), e)

\* a <= b.  Two finite floats of one sign are in the order of their highest
\* bits and, where these agree, of their mantissas
FLe(a, b) ==
    LET top(x) == IF x.m = <<>> THEN 0 - 2000 ELSE x.e + BigBits(x.m)
        smaller(x, y) == \/ top(x) < top(y)
                         \/ top(x) = top(y) /\ BigCmp(x.m, y.m) < 0
    IN  /\ a.cls # "nan" /\ b.cls # "nan"
        /\ \/ a = b
           \/ a.s < b.s
           \/ /\ a.s = b.s
              /\ IF a.cls = "inf" \/ b.cls = "inf"
                 THEN IF a.s = 1 THEN b.cls = "inf" ELSE a.cls = "inf"
                 ELSE IF a.s = 1 THEN smaller(a, b) ELSE smaller(b, a)

\* int(x) of a finite float: the fraction is dropped
FInt(x) ==
    LET RECURSIVE value(_)
        value(a) == IF a = <<>> THEN 0 ELSE Head(a) + Limb * value(Tail(a))
    IN  x.s * value(BigShift(x.m, x.e))

\* the number a followed by the decimal digits d: four digits at a time,
\* and sixty-four at a time when in blocks.  The test of Len(a) has a
\* computed before the next digits are taken up
RECURSIVE Whole(_, _, _)
Whole(a, d, blocks) ==
    LET size == IF blocks THEN 64 ELSE 4
        step == IF Len(d) < size THEN Len(d) ELSE size
        rest == SubSeq(d, step + 1, Len(d))
    IN  IF d = <<>> \/ Len(a) < 0 THEN a
        ELSE IF blocks THEN Whole(Whole(a, SubSeq(d, 1, step), FALSE), rest, TRUE)
        ELSE Whole(Big([i \in DOMAIN a |-> 10^step * a[i]], DigitsVal(SubSeq(d, 1, step))),
                   rest, FALSE)

\* p.q divided by 10^n, rounded down, four digits at a time, and sixty-four
\* at a time when in blocks; r = 1 when something was left over, now or
\* before
RECURSIVE Over10(_, _, _)
Over10(p, n, blocks) ==
    LET step == IF blocks /\ n >= 64 THEN 64 ELSE IF n >= 4 THEN 4 ELSE n
        cut(once) == [q |-> once.q, r |-> IF once.r # 0 THEN 1 ELSE p.r]
    IN  IF n = 0 \/ p.q = <<>> THEN p
        ELSE IF step = 64 THEN Over10(Over10(p, 64, FALSE), n - 64, TRUE)
        ELSE Over10(cut(BigDiv(p.q, 10^step)), n - step, blocks)

\* twice p.q, and one more when something was left over
Odd(p) == Big([i \in DOMAIN p.q |-> 2 * p.q[i]], p.r)

\* the double nearest to s * whole * 10^x for x < 0: whole * 2^k, which
\* keeps more bits than a double has, is divided, and a remainder makes the
\* last bit odd
Scaled(s, whole, x, k) ==
    FRound(s, IF x >= 0 THEN whole
              ELSE Odd(Over10([q |-> BigShift(whole, k), r |-> 0], 0 - x, TRUE)),
           IF x >= 0 THEN 0 ELSE 0 - k - 1)

\* the double nearest to s * digits * 10^x.  Above 10^310 it is an infinity
\* and below 10^-330 zero
FloatOfDecimal(s, digits, x) ==
    IF digits = <<>> \/ x + Len(digits) < 0 - 330 THEN Special("fin", 1)
    ELSE IF x > 310 THEN Special("inf", s)
    ELSE Scaled(s, Whole(<<>>, IF x >= 0 THEN digits \o [i \in 1..x |-> "0"] ELSE digits,
                         TRUE),
                x, 60 - 4 * x)

\* the digits of a numeric literal without its leading zeros
RECURSIVE Significant(_)
Significant(d) == IF d # <<>> /\ DigitVal(d[1]) = 0 THEN Significant(Tail(d)) ELSE d

\* the literal ip.fp with the exponent power (minus: its sign), exp telling
\* whether an exponent is written
FloatOfParts(s, ip, fp, exp, minus, power) ==
    LET IsDigit(c) == c \in Digit
        exponent(expo) == (IF Len(expo) > 4 THEN 10000 ELSE DigitsVal(expo))
                          * (IF minus THEN 0 - 1 ELSE 1)
    IN  IF /\ exp => DigitPart(power)
           /\ ip = <<>> \/ DigitPart(ip)
           /\ fp = <<>> \/ DigitPart(fp)
           /\ ip # <<>> \/ fp # <<>>
        THEN [ok |-> TRUE,
              val |-> FloatOfDecimal(s, Significant(SelectSeq(ip \o fp, IsDigit)),
                          exponent(Significant(SelectSeq(power, IsDigit)))
                          - Len(SelectSeq(fp, IsDigit)))]
        ELSE [ok |-> FALSE, val |-> Special("nan", 1)]

\* the mantissa and what follows the "e" of a literal
FloatOfLiteral(s, mant, exp, tail) ==
    LET dots == {i \in 1..Len(mant) : mant[i] = "."}
        dot == IF dots = {} THEN Len(mant) + 1 ELSE CHOOSE i \in dots : TRUE
    IN  IF Cardinality(dots) > 1 THEN [ok |-> FALSE, val |-> Special("nan", 1)]
        ELSE FloatOfParts(s, SubSeq(mant, 1, dot - 1), SubSeq(mant, dot + 1, Len(mant)),
                          exp, tail # <<>> /\ tail[1] = "-",
                          IF tail # <<>> /\ tail[1] \in {"+", "-"} THEN Tail(tail) ELSE tail)

\* the text after the sign, in small letters
FloatOfBody(s, body) ==
    LET marks == {i \in 1..Len(body) : body[i] = "e"}
        mark == IF marks = {} THEN Len(body) + 1 ELSE CHOOSE i \in marks : TRUE
    IN  IF body \in {<<"i", "n", "f">>, <<"i", "n", "f", "i", "n", "i", "t", "y">>}
        THEN [ok |-> TRUE, val |-> Special("inf", s)]
        ELSE IF body = <<"n", "a", "n">> THEN [ok |-> TRUE, val |-> Special("nan", 1)]
        ELSE IF Cardinality(marks) > 1 THEN [ok |-> FALSE, val |-> Special("nan", 1)]
        ELSE FloatOfLiteral(s, SubSeq(body, 1, mark - 1), marks # {},
                            SubSeq(body, mark + 1, Len(body)))

\* the text without the whitespace around it
FloatOfStripped(t) ==
    LET signed == t # <<>> /\ t[1] \in {"+", "-"}
    IN  FloatOfBody(IF signed /\ t[1] = "-" THEN 0 - 1 ELSE 1,
                    py_lower(IF signed THEN Tail(t) ELSE t))

\* float(text): whitespace around, an optional sign, then "inf", "infinity"
\* or "nan" in any case, or digits with an optional point and an optional
\* exponent; anything else raises ValueError (ok = FALSE).  The value is the
\* double nearest to the decimal number.
py_float(text) == FloatOfStripped(Stripped(text, NumberWhite))

\* ---------------------------------------------------------------- quantities
\* A description is a sequence of characters.  In a pattern "*" stands for
\* \s*.
\* the rule table, in the order of the source: kilograms, grams, liters,
\* milliliters (a number with an optional fraction), then pieces, portions,
\* cups, tablespoons and teaspoons (digits only)
QuantityPatterns ==
    << [dec |-> TRUE, unit |-> <<"K", "G">>,
        factor |-> 1000, out |-> "g"],
       [dec |-> TRUE, unit |-> <<"K", "I", "L", "O", "G", "R", "A", "M", "M">>,
        factor |-> 1000, out |-> "g"],
       [dec |-> TRUE, unit |-> <<"k", "g">>,
        factor |-> 1000, out |-> "g"],
       [dec |-> TRUE, unit |-> <<"G">>,
        factor |-> 1, out |-> "g"],
       [dec |-> TRUE, unit |-> <<"G", "R", "A", "M", "M">>,
        factor |-> 1, out |-> "g"],
       [dec |-> TRUE, unit |-> <<"g">>,
        factor |-> 1, out |-> "g"],
       [dec |-> TRUE, unit |-> <<"L">>,
        factor |-> 1000, out |-> "ml"],
       [dec |-> TRUE, unit |-> <<"L", "I", "T", "R">>,
        factor |-> 1000, out |-> "ml"],
       [dec |-> TRUE, unit |-> <<"l">>,
        factor |-> 1000, out |-> "ml"],
       [dec |-> TRUE, unit |-> <<"M", "L">>,
        factor |-> 1, out |-> "ml"],
       [dec |-> TRUE, unit |-> <<"M", "I", "L", "L", "I", "L", "I", "T", "R">>,
        factor |-> 1, out |-> "ml"],
       [dec |-> TRUE, unit |-> <<"m", "l">>,
        factor |-> 1, out |-> "ml"],
       [dec |-> FALSE, unit |-> <<"W", "T">>,
        factor |-> 100, out |-> "g"],
       [dec |-> FALSE, unit |-> <<"W", "T", "U", "K">>,
        factor |-> 100, out |-> "g"],
       [dec |-> FALSE, unit |-> <<"W", "T", "U", "K", "I">>,
        factor |-> 100, out |-> "g"],
       [dec |-> FALSE, unit |-> <<"p", "c">>,
        factor |-> 100, out |-> "g"],
       [dec |-> FALSE, unit |-> <<"P", "O", "R", "C">>,
        factor |-> 200, out |-> "g"],
       [dec |-> FALSE, unit |-> <<"P", "O", "R", "C", "I", "I">>,
        factor |-> 200, out |-> "g"],
       [dec |-> FALSE, unit |-> <<"P", "O", "R", "C", "I", "Q">>,
        factor |-> 200, out |-> "g"],
       [dec |-> FALSE, unit |-> <<"S", "T", "A", "K", "A", "N">>,
        factor |-> 250, out |-> "g"],
       [dec |-> FALSE, unit |-> <<"S", "T", "A", "K", "A", "N", "A">>,
        factor |-> 250, out |-> "g"],
       [dec |-> FALSE, unit |-> <<"S", "T", "A", "K", "A", "N", "O", "V">>,
        factor |-> 250, out |-> "g"],
       [dec |-> FALSE, unit |-> <<"S", "T", ".", "*", "L", ".">>,
        factor |-> 15, out |-> "g"],
       [dec |-> FALSE, unit |-> <<"S", "T", "O", "L", "O", "V", "Y", "H", " ", "L", "O", "Z", "E", "K">>,
        factor |-> 15, out |-> "g"],
       [dec |-> FALSE, unit |-> <<"S", "T", "O", "L", "O", "V", "Y", "E", " ", "L", "O", "Z", "K", "I">>,
        factor |-> 15, out |-> "g"],
       [dec |-> FALSE, unit |-> <<"X", ".", "*", "L", ".">>,
        factor |-> 5, out |-> "g"],
       [dec |-> FALSE, unit |-> <<"X", "A", "J", "N", "Y", "H", " ", "L", "O", "Z", "E", "K">>,
        factor |-> 5, out |-> "g"],
       [dec |-> FALSE, unit |-> <<"X", "A", "J", "N", "Y", "E", " ", "L", "O", "Z", "K", "I">>,
        factor |-> 5, out |-> "g"] >>

RECURSIVE SkipBlanks(_, _)
SkipBlanks(text, i) ==
    IF i <= Len(text) /\ text[i] \in White THEN SkipBlanks(text, i + 1) ELSE i

\* the literal of a pattern stands at place i of the text
RECURSIVE UnitAt(_, _, _)
UnitAt(unit, text, i) ==
    IF unit = <<>> THEN TRUE
    ELSE IF Head(unit) = "*" THEN UnitAt(Tail(unit), text, SkipBlanks(text, i))
    ELSE /\ i <= Len(text)
         /\ text[i] = Head(unit)
         /\ UnitAt(Tail(unit), text, i + 1)

\* re.search(p, text): the group (\d+) or (\d+(?:\.\d+)?) of the leftmost
\* match, the longest one at that place, or None
quantity_search(p, text) ==
    LET number(i, j) ==
            \/ AllDigits(SubSeq(text, i, j))
            \/ /\ p.dec
               /\ \E d \in (i + 1)..(j - 1) :
                     /\ text[d] = "."
                     /\ AllDigits(SubSeq(text, i, d - 1))
                     /\ AllDigits(SubSeq(text, d + 1, j))
        digits == {i \in 1..Len(text) : text[i] \in Digit}
        hits == {h \in digits \X digits :
                    /\ h[1] <= h[2]
                    /\ number(h[1], h[2])
                    /\ UnitAt(<<"*">> \o p.unit, text, h[2] + 1)}
        first == CHOOSE h \in hits :
                    \A g \in hits : h[1] < g[1] \/ (h[1] = g[1] /\ h[2] >= g[2])
    IN  IF hits = {} THEN {} ELSE {SubSeq(text, first[1], first[2])}

\* the converter of a rule: float(x), or float(x) times the factor
converted(x, p) ==
    [quantity |-> IF p.factor = 1 THEN x ELSE FMul(x, Float(p.factor)), unit |-> p.out]

\* the first rule of the list that matches the text converts its number; the
\* default when none does
first_match(rules, text, default) ==
    LET found == {k \in 1..Len(rules) : quantity_search(rules[k], text) # {}}
        by(p) == converted(py_float(CHOOSE c \in quantity_search(p, text) : TRUE).val, p)
    IN  IF found = {} THEN [quantity |-> default, unit |-> "g"]
        ELSE by(rules[CHOOSE j \in found : \A h \in found : j <= h])

\* a table lookup that answers 0 g when no rule matches
parse_quantity_from_description_no_default(description) ==
    first_match(QuantityPatterns, Strip(py_lower(description)), Float(0))

\* the first rule of the table that matches converts its number; 100 g when
\* none does.  The quantity is the float the converter of the rule gives.
parse_quantity_from_description(description) ==
    first_match(QuantityPatterns, Strip(py_lower(description)), Float(100))

\* ---------------------------------------------------------------- validation
\* a validate_age that turns the upper bound of the range down
validate_age_open(age) ==
    LET r == py_int(age)
    IN  IF r.ok /\ MIN_AGE <= r.val /\ r.val < MAX_AGE THEN {r.val} ELSE {}

validate_age(age) ==
    LET r == py_int(age)
    IN  IF r.ok /\ MIN_AGE <= r.val /\ r.val <= MAX_AGE THEN {r.val} ELSE {}

\* min <= value <= max of a parsed float
within(r, min, max) ==
    IF r.ok /\ FLe(Float(min), r.val) /\ FLe(r.val, Float(max)) THEN {r.val} ELSE {}

\* what a user may type at a registration step
T0 == <<"0">>
T70 == <<"7", "0">>
T120 == <<"1", "2", "0">>
T300 == <<"3", "0", "0">>
T301 == <<"3", "0", "1">>
T70_5 == <<"7", "0", ".", "5">>
TWord == <<"a", "b">>
\* a vertical tab and "70"
TVt70 == <<"", "7", "0">>
RegTexts == {T0, T70, T120, T300, T301, T70_5, TWord, TVt70}
Genders == {"Male", "Female"}

\* table[key] where the table holds the key, and the value elsewhere: the
\* tables below hold the values of the texts of RegTexts, computed once
Known(table, key, value) == IF key \in DOMAIN table THEN table[key] ELSE value

height_float(height) == within(py_float(height), MIN_HEIGHT, MAX_HEIGHT)

RegHeights == [t \in RegTexts |-> height_float(t)]

validate_height(height) == Known(RegHeights, height, height_float(height))

weight_float(weight) == within(py_float(weight), MIN_WEIGHT, MAX_WEIGHT)

RegWeights == [t \in RegTexts |-> weight_float(t)]

validate_weight(weight) == Known(RegWeights, weight, weight_float(weight))

\* the floats of the literals of constants.py
ACTIVITY_LEVELS ==
    LET literals == [Minimal |-> <<"1", ".", "2">>,
                     Light |-> <<"1", ".", "3", "7", "5">>,
                     Moderate |-> <<"1", ".", "5", "5">>,
                     High |-> <<"1", ".", "7", "2", "5">>,
                     VeryHigh |-> <<"1", ".", "9">>]
    IN  [level \in DOMAIN literals |-> py_float(literals[level]).val]

\* ACTIVITY_LEVELS.get(activity_level, 1.55)
ActivityMultiplier(level) ==
    LET get(levels) == IF level \in DOMAIN levels THEN levels[level] ELSE levels.Moderate
    IN  get(ACTIVITY_LEVELS)

\* the floats of the literals 10, 6.25, 5 and -161 of the formula
MifflinTerms ==
    LET literals == [weight |-> <<"1", "0">>, height |-> <<"6", ".", "2", "5">>,
                     Male |-> <<"5">>, Female |-> <<"-", "1", "6", "1">>]
    IN  [term \in DOMAIN literals |-> py_float(literals[term]).val]

\* Mifflin-St Jeor in the floats of the source:
\* bmr = (10 * weight) + (6.25 * height) - (5 * age) + 5, or - 161, and
\* int(bmr * multiplier).  int() of an infinity or of the nan raises, and the
\* except branch answers 2000.
bmr_times_multiplier(age, height, weight, gender, activity_level) ==
    LET bmr(k) == FAdd(FAdd(FAdd(FMul(k.weight, weight), FMul(k.height, height)),
                            Float(0 - 5 * age)),
                       IF gender = "Male" THEN k.Male ELSE k.Female)
        int(daily) == IF daily.cls = "fin" THEN FInt(daily) ELSE 2000
    IN  int(FMul(bmr(MifflinTerms), ActivityMultiplier(activity_level)))

\* the daily calories of the profiles that the texts of RegTexts make
RegCalories ==
    LET values(table) == UNION {table[t] : t \in DOMAIN table}
    IN  [p \in values([t \in RegTexts |-> validate_age(t)])
               \X values(RegHeights) \X values(RegWeights)
               \X Genders \X DOMAIN ACTIVITY_LEVELS |->
            bmr_times_multiplier(p[1], p[2], p[3], p[4], p[5])]

calculate_daily_calories(age, height, weight, gender, activity_level) ==
    Known(RegCalories, <<age, height, weight, gender, activity_level>>,
          bmr_times_multiplier(age, height, weight, gender, activity_level))

\* ---------------------------------------------------------------- analysis texts
\* A text of the inference service is a sequence of tokens [k, n]:
\*   num        a run of digits, n its value
\*   kcal       the unit "kkal"
\*   total_cal  "Obshchaya kalorijnost:"        (contains "kalorijnost:")
\*   total_count "Obshchee kolichestvo kalorij:" (contains "kalorij:")
\*   dish_cal   "Kalorijnost blyuda:"
\*   cal        "Kalorijnost:"          calories  "kalorij:"
\*   h3expl, h2expl, h1expl, expl   "### / ## / # / Poyasnenie raschetov:"
\*   thus "Takim obrazom"   so "Itak"   in_sum "V itoge"   total "Itogo"
\*   nl         a line break
\*   sp         a run of whitespace without a line break
\*   word       any other text, without whitespace, that holds none of the above
\* The tokens stand side by side: there is no whitespace in a text but its
\* nl and sp tokens, and no two num tokens are neighbours.  Matching ignores
\* case, as the source does.
Tok(k) == [k |-> k, n |-> 0]
Num(n) == [k |-> "num", n |-> n]

\* the analysis the service did not give: None and "" are both falsy
NoResult == <<>>

\* \s*
RECURSIVE SkipSpace(_, _)
SkipSpace(text, i) ==
    IF i <= Len(text) /\ text[i].k \in {"nl", "sp"} THEN SkipSpace(text, i + 1) ELSE i

\* where the captured number of a pattern stands when the match starts at i
NumPos(p, text, i) == IF p.kw = {} THEN i ELSE SkipSpace(text, i + 1)

\* a pattern is  [keyword] \s* (\d+) [\s* kkal [\s* $]], and $ (MULTILINE)
\* stands at the end of the text and before every line break
MatchAt(p, text, i) ==
    LET np == NumPos(p, text, i)
        kp == SkipSpace(text, np + 1)
    IN  /\ p.kw = {} \/ text[i].k \in p.kw
        /\ np <= Len(text)
        /\ text[np].k = "num"
        /\ p.kcal => /\ kp <= Len(text)
                     /\ text[kp].k = "kcal"
                     /\ p.eol => \E j \in (kp + 1)..(Len(text) + 1) :
                                    /\ \A h \in (kp + 1)..(j - 1) : text[h].k \in {"nl", "sp"}
                                    /\ j = Len(text) + 1 \/ text[j].k = "nl"

\* re.search: the captured number of the leftmost match, or None
re_search(p, text) ==
    LET hits == {i \in 1..Len(text) : MatchAt(p, text, i)}
        first == CHOOSE i \in hits : \A j \in hits : i <= j
    IN  IF hits = {} THEN {} ELSE {text[NumPos(p, text, first)].n}

\* a list that tries the bare number at the end of a line first
PrimaryPatterns_bare_first ==
    << [kw |-> {}, kcal |-> TRUE, eol |-> TRUE],
       [kw |-> {"total_cal"}, kcal |-> TRUE, eol |-> FALSE],
       [kw |-> {"total_count"}, kcal |-> TRUE, eol |-> FALSE],
       [kw |-> {"dish_cal"}, kcal |-> TRUE, eol |-> FALSE],
       [kw |-> {"cal", "total_cal"}, kcal |-> TRUE, eol |-> TRUE],
       [kw |-> {"cal", "total_cal"}, kcal |-> FALSE, eol |-> FALSE],
       [kw |-> {"calories", "total_count"}, kcal |-> FALSE, eol |-> FALSE] >>

PrimaryPatterns ==
    << [kw |-> {"total_cal"}, kcal |-> TRUE, eol |-> FALSE],
       [kw |-> {"total_count"}, kcal |-> TRUE, eol |-> FALSE],
       [kw |-> {"dish_cal"}, kcal |-> TRUE, eol |-> FALSE],
       [kw |-> {"cal", "total_cal"}, kcal |-> TRUE, eol |-> TRUE],
       [kw |-> {}, kcal |-> TRUE, eol |-> TRUE],
       [kw |-> {"cal", "total_cal"}, kcal |-> FALSE, eol |-> FALSE],
       [kw |-> {"calories", "total_count"}, kcal |-> FALSE, eol |-> FALSE] >>

FallbackPatterns ==
    << [kw |-> {}, kcal |-> TRUE, eol |-> FALSE],
       [kw |-> {"cal", "total_cal"}, kcal |-> FALSE, eol |-> FALSE],
       [kw |-> {"calories", "total_count"}, kcal |-> FALSE, eol |-> FALSE] >>

\* a loop that takes the first match whatever its number
RECURSIVE FirstInRange_unchecked(_, _, _)
FirstInRange_unchecked(patterns, text, k) ==
    IF k > Len(patterns) THEN {}
    ELSE LET m == re_search(patterns[k], text)
         IN  IF m # {} THEN m ELSE FirstInRange_unchecked(patterns, text, k + 1)

\* a loop that ends at the first pattern that matches, in range or not
FirstInRange_first_only(patterns, text, k) ==
    LET hit == {j \in k..Len(patterns) : re_search(patterns[j], text) # {}}
        first == CHOOSE j \in hit : \A h \in hit : j <= h
        m == re_search(patterns[first], text)
    IN  IF hit = {} THEN {}
        ELSE IF \E c \in m : MIN_CALORIES <= c /\ c <= MAX_CALORIES THEN m ELSE {}

\* the loop over a pattern list: a match out of range passes to the next pattern
RECURSIVE FirstInRange(_, _, _)
FirstInRange(patterns, text, k) ==
    IF k > Len(patterns) THEN {}
    ELSE LET m == re_search(patterns[k], text)
         IN  IF \E c \in m : MIN_CALORIES <= c /\ c <= MAX_CALORIES
             THEN m
             ELSE FirstInRange(patterns, text, k + 1)

extract_calories_from_analysis(text) ==
    LET primary == FirstInRange(PrimaryPatterns, text, 1)
    IN  IF primary # {} THEN primary ELSE FirstInRange(FallbackPatterns, text, 1)

is_valid_analysis(text) ==
    \E c \in extract_calories_from_analysis(text) : c > 0

ExplanationPatterns ==
    << {"h3expl"}, {"h3expl", "h2expl"}, {"h3expl", "h2expl", "h1expl"},
       {"h3expl", "h2expl", "h1expl", "expl"},
       {"thus"}, {"so"}, {"in_sum"}, {"total"} >>

\* re.sub(pattern + '.*$', '', text, DOTALL): cut from the first occurrence on
CutFrom(text, kinds) ==
    LET hits == {i \in 1..Len(text) : text[i].k \in kinds}
        first == CHOOSE i \in hits : \A j \in hits : i <= j
    IN  IF hits = {} THEN text ELSE SubSeq(text, 1, first - 1)

\* a loop that ends after the first pattern of the list that occurs
CutAll_first_only(text, k) ==
    LET found == {j \in k..Len(ExplanationPatterns) :
                    \E i \in 1..Len(text) : text[i].k \in ExplanationPatterns[j]}
        first == CHOOSE j \in found : \A h \in found : j <= h
    IN  IF found = {} THEN text ELSE CutFrom(text, ExplanationPatterns[first])

RECURSIVE CutAll(_, _)
CutAll(text, k) ==
    IF k > Len(ExplanationPatterns) THEN text
    ELSE CutAll(CutFrom(text, ExplanationPatterns[k]), k + 1)

\* a trim that takes one line break only
RStripNl_once(text) ==
    IF text # <<>> /\ text[Len(text)].k = "nl"
    THEN SubSeq(text, 1, Len(text) - 1) ELSE text

\* text.rstrip('\n')
RECURSIVE RStripNl(_)
RStripNl(text) ==
    IF text # <<>> /\ text[Len(text)].k = "nl"
    THEN RStripNl(SubSeq(text, 1, Len(text) - 1)) ELSE text

remove_explanations_from_analysis(text) == RStripNl(CutAll(text, 1))

\* ---------------------------------------------------------------- state
VARIABLES
    session,          \* context.user_data of every handle
    users,            \* table users: telegram_id -> row
    meals,            \* table meals, a bag of rows
    calorie_checks,   \* table calorie_checks, a bag of rows
    now,              \* SQLite's datetime('now'), in ticks
    reply,            \* the last message the bot sent
    inflight,         \* per handle, the call to the inference service its
                      \* handler is suspended on
    was_active        \* history: the handles whose subscription has been
                      \* active in some state so far

vars == <<session, users, meals, calorie_checks, now, reply, inflight, was_active>>

NoData == [absent |-> TRUE]

\* the states of a handle's call to the inference service
\* A suspended handler keeps is_for_adding and is_for_checking, the two
\* flags of its channel as they were when the input arrived (for a text, the
\* two flags handle_text_input tested).
NoCall == [st |-> "none"]
Received(s, adding, checking) ==
    [st |-> "called", adding |-> s[adding], checking |-> s[checking]]
Called(s) == Received(s, "waiting_for_photo", "waiting_for_check_photo")
\* the call of analyze_food_text carries the description and the quantity
\* that parse_quantity_from_description read off it
CalledWith(call, description, q) ==
    [st |-> "called", adding |-> call.adding, checking |-> call.checking,
     description |-> description, quantity |-> q.quantity, unit |-> q.unit]
Transcribing(s) ==
    [Received(s, "waiting_for_voice", "waiting_for_check_voice") EXCEPT !.st = "transcribing"]
\* the handler waits for context.bot.get_file: no call to the service has
\* been made; call is the call the handler makes once the file is there
Fetching(call) ==
    [st |-> "fetching", adding |-> call.adding, checking |-> call.checking,
     next |-> call.st]
Fetched(call) ==
    [st |-> call.next, adding |-> call.adding, checking |-> call.checking]
Transcribed(call, heard) ==
    [st |-> "transcribed", adding |-> call.adding, checking |-> call.checking,
     result |-> heard]
Answered(call, result) ==
    [st |-> "answered", adding |-> call.adding, checking |-> call.checking,
     result |-> result]

\* context.user_data of a chat the bot has not talked to yet, and after clear()
EmptySession ==
    [registration_step |-> "none",
     user_data |-> NoData,
     waiting_for_photo |-> FALSE,
     waiting_for_text |-> FALSE,
     waiting_for_voice |-> FALSE,
     waiting_for_check_photo |-> FALSE,
     waiting_for_check_text |-> FALSE,
     waiting_for_check_voice |-> FALSE,
     check_mode |-> FALSE,
     admin_waiting_for_telegram_id |-> FALSE,
     selected_meal |-> "none"]

\* context.user_data['user_data'] as register_command creates it
NewUserData(id) ==
    [telegram_id |-> id, name |-> {}, gender |-> {}, age |-> {}, height |-> {},
     weight |-> {}, activity_level |-> {}, daily_calories |-> {}]

\* ---------------------------------------------------------------- time
\* DATE(t) of SQLite: the calendar day of an instant
DATE(t) == t \div TicksPerDay
\* datetime(t, '+n day')
PlusDays(t, n) == t + n * TicksPerDay

\* ---------------------------------------------------------------- database.py
get_user_by_telegram_id(tbl, id) == IF id \in DOMAIN tbl THEN {tbl[id]} ELSE {}

\* the row INSERT INTO users creates: the column defaults of init_database
NewUserRow(d, t) ==
    [name |-> d.name, gender |-> d.gender, age |-> d.age, height |-> d.height,
     weight |-> d.weight, activity_level |-> d.activity_level,
     daily_calories |-> d.daily_calories,
     subscription_type |-> "trial", is_premium |-> FALSE,
     subscription_expires_at |-> {}, created_at |-> t]

\* a create_user that reports success whatever the database did
create_user_ok_whatever(tbl, id, fault) == id \notin DOMAIN tbl

\* create_user: telegram_id is UNIQUE, a second insert raises IntegrityError
create_user_ok(tbl, id, fault) == ~fault /\ id \notin DOMAIN tbl

\* an INSERT OR REPLACE in the place of the INSERT
create_user_replacing(tbl, id, d, t, fault) ==
    IF ~fault
    THEN [x \in DOMAIN tbl \cup {id} |-> IF x = id THEN NewUserRow(d, t) ELSE tbl[x]]
    ELSE tbl

create_user(tbl, id, d, t, fault) ==
    IF create_user_ok(tbl, id, fault)
    THEN [x \in DOMAIN tbl \cup {id} |-> IF x = id THEN NewUserRow(d, t) ELSE tbl[x]]
    ELSE tbl

delete_user_by_telegram_id_ok(tbl, id, fault) == ~fault /\ id \in DOMAIN tbl

delete_user_by_telegram_id(tbl, id, fault) ==
    IF fault THEN tbl ELSE [x \in DOMAIN tbl \ {id} |-> tbl[x]]

\* a row of meals.  Of its columns the model keeps those a handler decides on;
\* meal_name, dish_name and analysis_type are only displayed
MealRow(id, meal_type, calories, t) ==
    [telegram_id |-> id, meal_type |-> meal_type, calories |-> calories,
     created_at |-> t]

\* add_meal: meals.calories is INTEGER NOT NULL, so a None count makes the
\* INSERT raise and add_meal return False; foreign keys are not enforced
\* (no PRAGMA foreign_keys), so the handle need not be in users
add_meal_ok(calories, fault) == ~fault /\ calories # {}

add_meal(tbl, id, meal_type, calories, t, fault) ==
    IF add_meal_ok(calories, fault)
    THEN tbl (+) SetToBag({MealRow(id, meal_type, CHOOSE c \in calories : TRUE, t)})
    ELSE tbl

is_meal_already_added(tbl, id, meal_type, t) ==
    \E r \in DOMAIN tbl : /\ r.telegram_id = id
                          /\ r.meal_type = meal_type
                          /\ DATE(r.created_at) = DATE(t)

delete_today_meals(tbl, id, t) ==
    [r \in {x \in DOMAIN tbl :
               ~(x.telegram_id = id /\ DATE(x.created_at) = DATE(t))} |-> tbl[r]]

\* a delete_all_user_meals that deletes nothing
delete_all_user_meals_kept(tbl, id, fault) == tbl

\* a database error is caught and leaves the table as it was
delete_all_user_meals(tbl, id, fault) ==
    IF fault THEN tbl ELSE [r \in {x \in DOMAIN tbl : x.telegram_id # id} |-> tbl[r]]

get_daily_calorie_checks_count(tbl, id, t) ==
    BagCardinality([r \in {x \in DOMAIN tbl :
                              x.telegram_id = id /\ DATE(x.created_at) = DATE(t)}
                    |-> tbl[r]])

\* a check_user_subscription that takes a subscription for expired at the
\* instant of its expiry
check_user_subscription_early(tbl, id, t) ==
    IF id \notin DOMAIN tbl
    THEN [is_active |-> FALSE, type |-> "none", expires_at |-> {}]
    ELSE LET row == tbl[id]
             exp == row.subscription_expires_at
             is_expired == \E e \in exp : t >= e
         IN  IF row.subscription_type = "trial"
             THEN IF exp # {}
                  THEN IF is_expired
                       THEN [is_active |-> FALSE, type |-> "trial_expired",
                             expires_at |-> exp]
                       ELSE [is_active |-> TRUE, type |-> "trial",
                             expires_at |-> exp]
                  ELSE [is_active |-> TRUE, type |-> "trial",
                        expires_at |-> {PlusDays(row.created_at, 1)}]
             ELSE IF row.subscription_type = "premium" /\ row.is_premium
             THEN IF exp # {}
                  THEN IF is_expired
                       THEN [is_active |-> FALSE, type |-> "premium_expired",
                             expires_at |-> exp]
                       ELSE [is_active |-> TRUE, type |-> "premium",
                             expires_at |-> exp]
                  ELSE [is_active |-> TRUE, type |-> "premium", expires_at |-> {}]
             ELSE [is_active |-> FALSE, type |-> "none", expires_at |-> {}]

\* check_user_subscription, the answer.  A trial row without an expiry is
\* answered active without a comparison with the clock; the expiry it reports
\* is the one it has just written, created_at + 1 day.
check_user_subscription(tbl, id, t) ==
    IF id \notin DOMAIN tbl
    THEN [is_active |-> FALSE, type |-> "none", expires_at |-> {}]
    ELSE LET row == tbl[id]
             exp == row.subscription_expires_at
             is_expired == \E e \in exp : t > e
         IN  IF row.subscription_type = "trial"
             THEN IF exp # {}
                  THEN IF is_expired
                       THEN [is_active |-> FALSE, type |-> "trial_expired",
                             expires_at |-> exp]
                       ELSE [is_active |-> TRUE, type |-> "trial",
                             expires_at |-> exp]
                  ELSE [is_active |-> TRUE, type |-> "trial",
                        expires_at |-> {PlusDays(row.created_at, 1)}]
             ELSE IF row.subscription_type = "premium" /\ row.is_premium
             THEN IF exp # {}
                  THEN IF is_expired
                       THEN [is_active |-> FALSE, type |-> "premium_expired",
                             expires_at |-> exp]
                       ELSE [is_active |-> TRUE, type |-> "premium",
                             expires_at |-> exp]
                  ELSE [is_active |-> TRUE, type |-> "premium", expires_at |-> {}]
             ELSE [is_active |-> FALSE, type |-> "none", expires_at |-> {}]

\* check_user_subscription when the database raises: the except branch
check_user_subscription_failed ==
    [is_active |-> FALSE, type |-> "error", expires_at |-> {}]

\* an UPDATE that counts the day of the trial from the moment of the call
check_user_subscription_update_from_now(tbl, id) ==
    IF /\ id \in DOMAIN tbl
       /\ tbl[id].subscription_type = "trial"
       /\ tbl[id].subscription_expires_at = {}
    THEN [tbl EXCEPT ![id].subscription_expires_at = {PlusDays(now, 1)}]
    ELSE tbl

\* check_user_subscription, the write: the UPDATE that records the expiry of
\* a trial row that has none
check_user_subscription_update(tbl, id) ==
    IF /\ id \in DOMAIN tbl
       /\ tbl[id].subscription_type = "trial"
       /\ tbl[id].subscription_expires_at = {}
    THEN [tbl EXCEPT ![id].subscription_expires_at = {PlusDays(tbl[id].created_at, 1)}]
    ELSE tbl

\* UPDATE ... WHERE telegram_id = ? changes nothing when no row matches
activate_premium_subscription(tbl, id, days, t) ==
    IF id \in DOMAIN tbl
    THEN [tbl EXCEPT ![id].subscription_type = "premium",
                     ![id].is_premium = TRUE,
                     ![id].subscription_expires_at = {PlusDays(t, days)}]
    ELSE tbl

\* the UPDATE of handle_admin_deactivate_subscription_callback
deactivate_subscription(tbl, id, t) ==
    IF id \in DOMAIN tbl
    THEN [tbl EXCEPT ![id].subscription_type = "trial_expired",
                     ![id].is_premium = FALSE,
                     ![id].subscription_expires_at = {PlusDays(t, 0 - 1)}]
    ELSE tbl

\* ---------------------------------------------------------------- access gate
check_subscription_access(tbl, id, t) ==
    LET subscription == check_user_subscription(tbl, id, t)
    IN  [has_access |-> subscription.is_active,
         subscription_type |-> subscription.type,
         expires_at |-> subscription.expires_at]

\* a test that takes every handle for an administrator
is_admin_anyone(user_id) == TRUE

is_admin(user_id) == user_id \in ADMIN_IDS

\* the history variable follows the state every step ends in
Observe ==
    was_active' = was_active \cup
        {u \in DOMAIN users' : check_user_subscription(users', u, now').is_active}

\* a row of calorie_checks, without the column check_type, which nothing
\* reads; a database error is caught and leaves the table as it was
add_calorie_check(tbl, id, t, fault) ==
    IF fault THEN tbl ELSE tbl (+) SetToBag({[telegram_id |-> id, created_at |-> t]})

\* ---------------------------------------------------------------- replies
\* the message the last handler ended with, and for whom: its kind ("none"
\* when the handler sent no message), the subscription type it shows ("-"
\* when it shows none) and the buttons of its meal-slot keyboard (the slots
\* and "menu", the way back)
Msg(u, kind, sub, slots) == [to |-> u, kind |-> kind, sub |-> sub, slots |-> slots]
Say(u, kind) == reply' = Msg(u, kind, "-", {})

\* ---------------------------------------------------------------- registration
\* a registration start that does not look for an existing profile
register_command_unchecked(u) ==
    /\ session' = [session EXCEPT ![u].registration_step = "name",
                                   ![u].user_data = NewUserData(u)]
    /\ Say(u, "ask_name")
    /\ UNCHANGED <<users, meals, calorie_checks, now>>
    /\ UNCHANGED inflight
    /\ Observe

\* /register, and the button "register" of handle_callback_query: the same code
register_command(u) ==
    /\ IF get_user_by_telegram_id(users, u) # {}
       THEN /\ Say(u, "already_registered")
            /\ UNCHANGED session
       ELSE /\ session' = [session EXCEPT ![u].registration_step = "name",
                                          ![u].user_data = NewUserData(u)]
            /\ Say(u, "ask_name")
    /\ UNCHANGED <<users, meals, calorie_checks, now>>
    /\ UNCHANGED inflight
    /\ Observe

\* handle_text_input, the part after the two dispatches: a registration answer
registration_text(u, text) ==
    LET s == session[u]
        step == s.registration_step
        \* a step that validates: the value is stored and the next step
        \* asked for, or the question is repeated
        validated(value, next, ask, bad) ==
            IF value = {}
            THEN Say(u, bad) /\ UNCHANGED session
            ELSE /\ session' = [session EXCEPT ![u].user_data[step] = value,
                                               ![u].registration_step = next]
                 /\ Say(u, ask)
    IN  /\ IF step = "none"
           THEN Say(u, "use_start") /\ UNCHANGED session
           ELSE IF step = "name"
           THEN /\ session' = [session EXCEPT ![u].user_data.name = {text},
                                              ![u].registration_step = "gender"]
                /\ Say(u, "ask_gender")
           ELSE IF step = "age"
           THEN validated(validate_age(text), "height", "ask_height", "bad_age")
           ELSE IF step = "height"
           THEN validated(validate_height(text), "weight", "ask_weight", "bad_height")
           ELSE IF step = "weight"
           THEN validated(validate_weight(text), "activity", "ask_activity", "bad_weight")
           \* steps gender and activity: no branch of the if-chain, no message
           ELSE Say(u, "none") /\ UNCHANGED session
        /\ UNCHANGED <<users, meals, calorie_checks, now>>
        /\ UNCHANGED inflight
        /\ Observe

handle_gender_callback(u, gender) ==
    /\ IF session[u].user_data = NoData
       THEN Say(u, "registration_data_missing") /\ UNCHANGED session
       ELSE /\ session' = [session EXCEPT ![u].user_data.gender = {gender},
                                          ![u].registration_step = "age"]
            /\ Say(u, "ask_age")
    /\ UNCHANGED <<users, meals, calorie_checks, now>>
    /\ UNCHANGED inflight
    /\ Observe

\* what may go wrong in handle_activity_callback: the INSERT of create_user,
\* or the database under the access check that follows it
RegistrationFaults == {"none", "create_user", "check_user_subscription"}

\* the profile fields handle_activity_callback reads with user_data[...]:
\* a missing one raises KeyError, which nothing catches
ProfileFields(d) ==
    [name |-> CHOOSE x \in d.name : TRUE,
     gender |-> CHOOSE x \in d.gender : TRUE,
     age |-> CHOOSE x \in d.age : TRUE,
     height |-> CHOOSE x \in d.height : TRUE,
     weight |-> CHOOSE x \in d.weight : TRUE,
     activity_level |-> CHOOSE x \in d.activity_level : TRUE,
     daily_calories |-> CHOOSE x \in d.daily_calories : TRUE]

handle_activity_callback(u, level, fault) ==
    LET d0 == session[u].user_data
        d1 == [d0 EXCEPT !.activity_level = {level}]
        computable == d1.age # {} /\ d1.height # {} /\ d1.weight # {} /\ d1.gender # {}
        only(set) == CHOOSE x \in set : TRUE
        registered(d2, created) ==
            /\ session' = [session EXCEPT ![u].registration_step = "none",
                                          ![u].user_data = NoData]
            /\ users' = IF fault = "check_user_subscription"
                         THEN created
                         ELSE check_user_subscription_update(created, d2.telegram_id)
            /\ reply' = Msg(u, "registration_complete",
                            (IF fault = "check_user_subscription"
                             THEN check_user_subscription_failed
                             ELSE check_user_subscription(created, d2.telegram_id, now)).type,
                            {})
        calculated(d2) ==
            IF d2.name = {}
            THEN \* KeyError in the arguments of create_user
                 /\ session' = [session EXCEPT ![u].user_data = d2]
                 /\ Say(u, "none") /\ UNCHANGED users
            ELSE IF ~create_user_ok(users, d2.telegram_id, fault = "create_user")
            THEN /\ session' = [session EXCEPT ![u].user_data = d2]
                 /\ Say(u, "save_error")
                 /\ UNCHANGED users
            ELSE registered(d2, create_user(users, d2.telegram_id, ProfileFields(d2), now,
                                            fault = "create_user"))
    IN  /\ IF d0 = NoData
           THEN /\ Say(u, "registration_data_missing")
                /\ UNCHANGED <<session, users>>
           ELSE IF ~computable
           THEN \* KeyError in the arguments of calculate_daily_calories
                /\ session' = [session EXCEPT ![u].user_data = d1]
                /\ Say(u, "none") /\ UNCHANGED users
           ELSE calculated([d1 EXCEPT !.daily_calories =
                               {calculate_daily_calories(only(d1.age), only(d1.height),
                                                         only(d1.weight), only(d1.gender),
                                                         level)}])
        /\ UNCHANGED <<meals, calorie_checks, now>>
        /\ UNCHANGED inflight
        /\ Observe

\* create_user called for a handle by a completion other than the one of the
\* handle's session in this process (the table is shared by whoever opens
\* the database file); the call may fail
create_user_call(id, d, fault) ==
    /\ users' = create_user(users, id, d, now, fault)
    /\ UNCHANGED <<session, meals, calorie_checks, now, reply>>
    /\ UNCHANGED inflight
    /\ Observe

\* ---------------------------------------------------------------- flows
MealSlots == {"meal_breakfast", "meal_lunch", "meal_dinner", "meal_snack"}

\* the access gate as every handler calls it: the answer, and the table after
\* the lazy write of a missing trial expiry
handle_add_dish(u) ==
    LET access == check_subscription_access(users, u, now)
        offered == {m \in {"meal_breakfast", "meal_lunch", "meal_dinner"} :
                       ~is_meal_already_added(meals, u, m, now)}
                      \cup {"meal_snack", "menu"}
    IN  /\ users' = check_user_subscription_update(users, u)
        /\ IF ~access.has_access
           THEN reply' = Msg(u, "no_access", access.subscription_type, {})
           ELSE reply' = Msg(u, "meal_menu", "-", offered)
        /\ UNCHANGED <<session, meals, calorie_checks, now>>
        /\ UNCHANGED inflight
        /\ Observe

\* any button meal_*: no check of registration, access or of the day's entries
\* /add: a menu of the four slots whatever was logged, every button with the
\* callback data addmeal; no access check, nothing is written
add_command(u) ==
    /\ IF get_user_by_telegram_id(users, u) = {}
       THEN Say(u, "not_registered")
       ELSE reply' = Msg(u, "meal_menu", "-", {"addmeal", "menu"})
    /\ UNCHANGED <<session, users, meals, calorie_checks, now>>
    /\ UNCHANGED inflight
    /\ Observe

\* the button statistics: the access check, then the menu of the periods
handle_statistics_callback(u) ==
    LET access == check_subscription_access(users, u, now)
    IN  /\ users' = check_user_subscription_update(users, u)
        /\ IF ~access.has_access
           THEN reply' = Msg(u, "no_access", access.subscription_type, {})
           ELSE IF get_user_by_telegram_id(users, u) = {}
           THEN Say(u, "not_registered")
           ELSE reply' = Msg(u, "statistics_menu", "-",
                             {"stats_today", "stats_yesterday", "stats_week", "menu"})
        /\ UNCHANGED <<session, meals, calorie_checks, now>>
        /\ UNCHANGED inflight
        /\ Observe

handle_meal_selection(u, meal) ==
    /\ session' = [session EXCEPT ![u].selected_meal = meal]
    /\ Say(u, "channel_menu")
    /\ UNCHANGED <<users, meals, calorie_checks, now>>
    /\ UNCHANGED inflight
    /\ Observe

\* the flag a channel's button or command raises
WaitFlag(s, channel) ==
    CASE channel = "photo" -> [s EXCEPT !.waiting_for_photo = TRUE]
      [] channel = "text" -> [s EXCEPT !.waiting_for_text = TRUE]
      [] channel = "voice" -> [s EXCEPT !.waiting_for_voice = TRUE]

CheckFlag(s, channel) ==
    CASE channel = "photo" -> [s EXCEPT !.waiting_for_check_photo = TRUE,
                                        !.check_mode = TRUE]
      [] channel = "text" -> [s EXCEPT !.waiting_for_check_text = TRUE,
                                       !.check_mode = TRUE]
      [] channel = "voice" -> [s EXCEPT !.waiting_for_check_voice = TRUE,
                                        !.check_mode = TRUE]

\* the body the three analyze_* buttons share
analyze_callback(u, channel) ==
    /\ session' = [session EXCEPT ![u] = WaitFlag(session[u], channel)]
    /\ Say(u, "send_input")
    /\ UNCHANGED <<users, meals, calorie_checks, now>>
    /\ UNCHANGED inflight
    /\ Observe

handle_analyze_photo_callback(u) == analyze_callback(u, "photo")
handle_analyze_text_callback(u) == analyze_callback(u, "text")
handle_analyze_voice_callback(u) == analyze_callback(u, "voice")

\* the body /addphoto, /addtext and /addvoice share: registration is checked,
\* access is not
add_channel_command(u, channel) ==
    /\ IF get_user_by_telegram_id(users, u) = {}
       THEN Say(u, "not_registered") /\ UNCHANGED session
       ELSE /\ session' = [session EXCEPT ![u] = WaitFlag(session[u], channel)]
            /\ Say(u, "send_input")
    /\ UNCHANGED <<users, meals, calorie_checks, now>>
    /\ UNCHANGED inflight
    /\ Observe

addphoto_command(u) == add_channel_command(u, "photo")
addtext_command(u) == add_channel_command(u, "text")
addvoice_command(u) == add_channel_command(u, "voice")

\* the quota test with the limit itself still allowed
QuotaExhausted_above(access, u) ==
    /\ ~access.has_access
    /\ get_daily_calorie_checks_count(calorie_checks, u, now) > DAILY_CHECK_LIMIT

\* the quota test of the quick check: no access and 3 checks today
QuotaExhausted(access, u) ==
    /\ ~access.has_access
    /\ get_daily_calorie_checks_count(calorie_checks, u, now) >= DAILY_CHECK_LIMIT

handle_check_calories(u) ==
    LET access == check_subscription_access(users, u, now)
    IN  /\ IF get_user_by_telegram_id(users, u) = {}
           THEN Say(u, "not_registered") /\ UNCHANGED users
           ELSE /\ users' = check_user_subscription_update(users, u)
                /\ IF QuotaExhausted(access, u)
                   THEN reply' = Msg(u, "limit_reached", access.subscription_type, {})
                   ELSE Say(u, "check_menu")
        /\ UNCHANGED <<session, meals, calorie_checks, now>>
        /\ UNCHANGED inflight
        /\ Observe

\* the body the three check_* buttons share
check_callback(u, channel) ==
    LET access == check_subscription_access(users, u, now)
    IN  /\ users' = check_user_subscription_update(users, u)
        /\ IF QuotaExhausted(access, u)
           THEN /\ reply' = Msg(u, "limit_reached", access.subscription_type, {})
                /\ UNCHANGED session
           ELSE /\ session' = [session EXCEPT ![u] = CheckFlag(session[u], channel)]
                /\ Say(u, "send_input")
        /\ UNCHANGED <<meals, calorie_checks, now>>
        /\ UNCHANGED inflight
        /\ Observe

handle_check_photo_callback(u) == check_callback(u, "photo")
handle_check_text_callback(u) == check_callback(u, "text")
handle_check_voice_callback(u) == check_callback(u, "voice")

\* ---------------------------------------------------------------- analysis
\* context.user_data.get('selected_meal', 'meal_breakfast')
SelectedMeal(s) == IF s.selected_meal = "none" THEN "meal_breakfast" ELSE s.selected_meal

\* a handling that chooses between quick check and logging by the flag that
\* took the input, not by check_mode
process_analysis_by_flag(u, s, result, fault) ==
    LET valid == result # NoResult /\ is_valid_analysis(result)
        shown == remove_explanations_from_analysis(result)
        calories == extract_calories_from_analysis(shown)
    IN  IF valid
        THEN IF inflight[u].checking
             THEN /\ fault \/ BagCardinality(calorie_checks) < MaxChecks
                  /\ calorie_checks' = add_calorie_check(calorie_checks, u, now, fault)
                  /\ session' = [session EXCEPT ![u] = [s EXCEPT !.check_mode = FALSE]]
                  /\ Say(u, "check_result")
                  /\ UNCHANGED meals
             ELSE /\ BagCardinality(meals) < MaxMeals
                  /\ meals' = add_meal(meals, u, SelectedMeal(s), calories, now, fault)
                  /\ session' = [session EXCEPT ![u] = s]
                  /\ IF add_meal_ok(calories, fault)
                     THEN Say(u, "meal_saved") ELSE Say(u, "save_failed")
                  /\ UNCHANGED calorie_checks
        ELSE /\ session' = [session EXCEPT ![u] = s]
             /\ IF result # NoResult
                THEN Say(u, "analysis_unrecognised") ELSE Say(u, "analysis_error")
             /\ UNCHANGED <<meals, calorie_checks>>

\* what the three input handlers do with the analysis of the service when
\* they resume (s is the session, its waiting flags down since the input
\* arrived).  The result
\* of add_calorie_check is not looked at: the check is shown and check_mode
\* lowered whether or not the row was written
process_analysis(u, s, result, fault) ==
    LET valid == result # NoResult /\ is_valid_analysis(result)
        shown == remove_explanations_from_analysis(result)
        calories == extract_calories_from_analysis(shown)
    IN  IF valid
        THEN IF s.check_mode
             THEN /\ fault \/ BagCardinality(calorie_checks) < MaxChecks
                  /\ calorie_checks' = add_calorie_check(calorie_checks, u, now, fault)
                  /\ session' = [session EXCEPT ![u] = [s EXCEPT !.check_mode = FALSE]]
                  /\ Say(u, "check_result")
                  /\ UNCHANGED meals
             ELSE /\ BagCardinality(meals) < MaxMeals
                  /\ meals' = add_meal(meals, u, SelectedMeal(s), calories, now, fault)
                  /\ session' = [session EXCEPT ![u] = s]
                  /\ IF add_meal_ok(calories, fault)
                     THEN Say(u, "meal_saved") ELSE Say(u, "save_failed")
                  /\ UNCHANGED calorie_checks
        ELSE /\ session' = [session EXCEPT ![u] = s]
             /\ IF result # NoResult
                THEN Say(u, "analysis_unrecognised") ELSE Say(u, "analysis_error")
             /\ UNCHANGED <<meals, calorie_checks>>

\* ---------------------------------------------------------------- the inference call
\* The three input handlers are suspended at their awaits of the service:
\* make_api_request hands requests.post to an executor without a timeout
\* argument, the handler resumes when the service has answered, and not
\* before.  Each handler is therefore a first step, which ends with the
\* call made, the answer of the service, and the step that resumes with the
\* answer; the clock may move in between.  The handlers of a photo and of a
\* voice message are suspended once more before their call, at the await
\* of context.bot.get_file: their first step ends there, with the flags
\* down and the "processing" message sent, and a second step downloads the
\* file and makes the call.  main.py does not set concurrent_updates, so no
\* other update is handled while a handler is suspended.
Quiet == \A u \in Users : inflight[u].st = "none"

\* both tables can take the row the handling of one more input may insert
RoomLeft ==
    /\ BagCardinality(meals) < MaxMeals
    /\ BagCardinality(calorie_checks) < MaxChecks

\* the ways the download of a file ends: the file is there (status 200), the
\* server answers with another status, or get_file or requests.get raises
FetchOutcomes == {"ok", "status", "raised"}

\* the photo arrives: flags down, the "processing" message is sent, and the
\* handler waits for get_file
handle_photo(u) ==
    LET s0 == session[u]
        s1 == [s0 EXCEPT !.waiting_for_photo = FALSE, !.waiting_for_check_photo = FALSE]
    IN  /\ Quiet
        /\ IF ~(s0.waiting_for_photo \/ s0.waiting_for_check_photo)
           THEN Say(u, "none") /\ UNCHANGED <<session, inflight>>
           ELSE /\ RoomLeft
                /\ session' = [session EXCEPT ![u] = s1]
                /\ Say(u, "processing")
                /\ inflight' = [inflight EXCEPT ![u] = Fetching(Called(s0))]
        /\ UNCHANGED <<users, meals, calorie_checks, now>>
        /\ Observe

\* handle_photo resumes after get_file and downloads the photo: with the
\* photo it calls analyze_food_photo; a status other than 200 is answered
\* with the download error, an exception with the general error of the
\* handler, and neither makes a call
photo_fetched(u, outcome) ==
    /\ inflight[u].st = "fetching"
    /\ inflight[u].next = "called"
    /\ IF outcome = "ok"
       THEN /\ UNCHANGED reply
            /\ inflight' = [inflight EXCEPT ![u] = Fetched(inflight[u])]
       ELSE /\ Say(u, IF outcome = "status" THEN "download_error" ELSE "handler_error")
            /\ inflight' = [inflight EXCEPT ![u] = NoCall]
    /\ UNCHANGED <<session, users, meals, calorie_checks, now>>
    /\ Observe

\* a text that handle_text_input took for the description of a dish: flags
\* down, the quantity is parsed, the call is made
handle_food_text_analysis(u, description) ==
    LET s0 == session[u]
        s1 == [s0 EXCEPT !.waiting_for_text = FALSE, !.waiting_for_check_text = FALSE]
    IN  /\ Quiet
        /\ RoomLeft
        /\ session' = [session EXCEPT ![u] = s1]
        /\ Say(u, "processing")
        /\ inflight' = [inflight EXCEPT ![u] =
                           CalledWith(Received(s0, "waiting_for_text", "waiting_for_check_text"),
                                      description,
                                      parse_quantity_from_description(description))]
        /\ UNCHANGED <<users, meals, calorie_checks, now>>
        /\ Observe

\* the branch of handle_text_input that takes a text for a description
text_received(u, description) ==
    /\ ~session[u].admin_waiting_for_telegram_id
    /\ session[u].waiting_for_text \/ session[u].waiting_for_check_text
    /\ handle_food_text_analysis(u, description)

\* the voice message arrives: flags down, the "processing" message is
\* sent, and the handler waits for get_file
handle_voice(u) ==
    LET s0 == session[u]
        s1 == [s0 EXCEPT !.waiting_for_voice = FALSE, !.waiting_for_check_voice = FALSE]
    IN  /\ Quiet
        /\ IF ~(s0.waiting_for_voice \/ s0.waiting_for_check_voice)
           THEN Say(u, "none") /\ UNCHANGED <<session, inflight>>
           ELSE /\ RoomLeft
                /\ session' = [session EXCEPT ![u] = s1]
                /\ Say(u, "processing")
                /\ inflight' = [inflight EXCEPT ![u] = Fetching(Transcribing(s0))]
        /\ UNCHANGED <<users, meals, calorie_checks, now>>
        /\ Observe

\* handle_voice resumes after get_file and downloads the voice file: with
\* the file it calls transcribe_voice; a status other than 200 is answered
\* with the download error, an exception with the general error of the
\* handler, and neither makes a call
voice_fetched(u, outcome) ==
    /\ inflight[u].st = "fetching"
    /\ inflight[u].next = "transcribing"
    /\ IF outcome = "ok"
       THEN /\ UNCHANGED reply
            /\ inflight' = [inflight EXCEPT ![u] = Fetched(inflight[u])]
       ELSE /\ Say(u, IF outcome = "status" THEN "download_error" ELSE "handler_error")
            /\ inflight' = [inflight EXCEPT ![u] = NoCall]
    /\ UNCHANGED <<session, users, meals, calorie_checks, now>>
    /\ Observe

\* the service answers transcribe_voice: the words heard, or nothing
transcription_answers(u, heard) ==
    /\ inflight[u].st = "transcribing"
    /\ inflight' = [inflight EXCEPT ![u] = Transcribed(inflight[u], heard)]
    /\ UNCHANGED <<session, users, meals, calorie_checks, now, reply>>
    /\ Observe

\* a handler that goes on to the analysis whatever the transcription gave
voice_transcribed_regardless(u) ==
    LET heard == inflight[u].result
    IN  /\ inflight[u].st = "transcribed"
        /\ UNCHANGED reply
        /\ inflight' = [inflight EXCEPT ![u] =
                           CalledWith(inflight[u], heard,
                                      parse_quantity_from_description(heard))]
        /\ UNCHANGED <<session, users, meals, calorie_checks, now>>
        /\ Observe

\* handle_voice resumes with the transcription: without one it gives up,
\* with one it calls analyze_food_text on the words heard
voice_transcribed(u) ==
    LET heard == inflight[u].result
    IN  /\ inflight[u].st = "transcribed"
        /\ IF heard = NoResult
           THEN /\ Say(u, "transcription_error")
                /\ inflight' = [inflight EXCEPT ![u] = NoCall]
           ELSE /\ UNCHANGED reply
                /\ inflight' = [inflight EXCEPT ![u] =
                                   CalledWith(inflight[u], heard,
                                              parse_quantity_from_description(heard))]
        /\ UNCHANGED <<session, users, meals, calorie_checks, now>>
        /\ Observe

\* the service answers the call: a text, or nothing usable (NoResult)
inference_answers(u, result) ==
    /\ inflight[u].st = "called"
    /\ inflight' = [inflight EXCEPT ![u] = Answered(inflight[u], result)]
    /\ UNCHANGED <<session, users, meals, calorie_checks, now, reply>>
    /\ Observe

\* the event loop resumes the handler with the answer: check_mode and the
\* selected meal are read now, and the row carries the time of now
photo_resumed(u, fault) ==
    /\ inflight[u].st = "answered"
    /\ process_analysis(u, session[u], inflight[u].result, fault)
    /\ inflight' = [inflight EXCEPT ![u] = NoCall]
    /\ UNCHANGED <<users, now>>
    /\ Observe

\* ---------------------------------------------------------------- data wipe
\* /reset only asks for confirmation; the button reset_confirm deletes.
\* delete_all_user_meals runs whether or not the profile row was deleted,
\* and calorie_checks is not touched (no foreign key is enforced).  Each of
\* the two DELETEs may fail on its own: fault is the one on users,
\* meals_fault the one on meals
\* a wipe that clears the session of every chat
handle_reset_confirm_everyone(u, fault, meals_fault) ==
    /\ users' = delete_user_by_telegram_id(users, u, fault)
    /\ meals' = delete_all_user_meals(meals, u, meals_fault)
    /\ IF delete_user_by_telegram_id_ok(users, u, fault)
       THEN /\ session' = [v \in Users |-> EmptySession]
            /\ IF meals' # meals
               THEN Say(u, "data_and_meals_deleted") ELSE Say(u, "data_deleted")
       ELSE /\ Say(u, "delete_failed")
            /\ UNCHANGED session
    /\ UNCHANGED <<calorie_checks, now>>
    /\ UNCHANGED inflight
    /\ Observe

handle_reset_confirm(u, fault, meals_fault) ==
    /\ users' = delete_user_by_telegram_id(users, u, fault)
    /\ meals' = delete_all_user_meals(meals, u, meals_fault)
    /\ IF delete_user_by_telegram_id_ok(users, u, fault)
       THEN /\ session' = [session EXCEPT ![u] = EmptySession]
            /\ IF meals' # meals
               THEN Say(u, "data_and_meals_deleted") ELSE Say(u, "data_deleted")
       ELSE /\ Say(u, "delete_failed")
            /\ UNCHANGED session
    /\ UNCHANGED <<calorie_checks, now>>
    /\ UNCHANGED inflight
    /\ Observe

dayreset_command(u) ==
    /\ IF get_user_by_telegram_id(users, u) = {}
       THEN Say(u, "not_registered") /\ UNCHANGED meals
       ELSE /\ meals' = delete_today_meals(meals, u, now)
            /\ IF meals' # meals
               THEN Say(u, "day_deleted") ELSE Say(u, "nothing_to_delete")
    /\ UNCHANGED <<session, users, calorie_checks, now>>
    /\ UNCHANGED inflight
    /\ Observe

\* /profile and the button profile: the subscription line of the profile
profile_command(u) ==
    LET subscription == check_user_subscription(users, u, now)
    IN  /\ IF get_user_by_telegram_id(users, u) = {}
           THEN Say(u, "not_registered") /\ UNCHANGED users
           ELSE /\ users' = check_user_subscription_update(users, u)
                /\ reply' = Msg(u, "profile", subscription.type, {})
        /\ UNCHANGED <<session, meals, calorie_checks, now>>
        /\ UNCHANGED inflight
        /\ Observe

\* /subscription and the button subscription: the status of the
\* subscription as check_subscription_access reports it, which makes the
\* write of check_user_subscription
subscription_command(u) ==
    LET access == check_subscription_access(users, u, now)
    IN  /\ IF get_user_by_telegram_id(users, u) = {}
           THEN Say(u, "not_registered") /\ UNCHANGED users
           ELSE /\ users' = check_user_subscription_update(users, u)
                /\ reply' = Msg(u, IF access.has_access THEN "subscription_status"
                                                        ELSE "no_access",
                                access.subscription_type, {})
        /\ UNCHANGED <<session, meals, calorie_checks, now>>
        /\ UNCHANGED inflight
        /\ Observe

\* ---------------------------------------------------------------- administration
handle_admin_check_subscription_callback(u) ==
    /\ IF ~is_admin(u)
       THEN Say(u, "not_admin") /\ UNCHANGED session
       ELSE /\ session' = [session EXCEPT ![u].admin_waiting_for_telegram_id = TRUE]
            /\ Say(u, "ask_telegram_id")
    /\ UNCHANGED <<users, meals, calorie_checks, now>>
    /\ UNCHANGED inflight
    /\ Observe

\* an input handler that ends the wait on any text
handle_admin_telegram_id_input_ending(u, text) ==
    LET parsed == py_int(Strip(text))
        telegram_id == parsed.val
        subscription == check_user_subscription(users, telegram_id, now)
        ended == [session EXCEPT ![u].admin_waiting_for_telegram_id = FALSE]
    IN  /\ IF ~is_admin(u)
           THEN Say(u, "not_admin") /\ UNCHANGED <<session, users>>
           ELSE IF ~parsed.ok
           THEN Say(u, "bad_telegram_id") /\ session' = ended /\ UNCHANGED users
           ELSE IF telegram_id <= 0
           THEN Say(u, "telegram_id_not_positive") /\ session' = ended /\ UNCHANGED users
           ELSE /\ session' = ended
                /\ IF get_user_by_telegram_id(users, telegram_id) = {}
                   THEN Say(u, "user_not_found") /\ UNCHANGED users
                   ELSE /\ users' = check_user_subscription_update(users, telegram_id)
                        /\ reply' = Msg(u, "manage_menu", subscription.type, {})
        /\ UNCHANGED <<meals, calorie_checks, now>>
        /\ UNCHANGED inflight
        /\ Observe

\* show_admin_manage_subscription_menu shows what check_user_subscription says
handle_admin_telegram_id_input(u, text) ==
    LET parsed == py_int(Strip(text))
        telegram_id == parsed.val
        subscription == check_user_subscription(users, telegram_id, now)
    IN  /\ IF ~is_admin(u)
           THEN Say(u, "not_admin") /\ UNCHANGED <<session, users>>
           ELSE IF ~parsed.ok
           THEN Say(u, "bad_telegram_id") /\ UNCHANGED <<session, users>>
           ELSE IF telegram_id <= 0
           THEN Say(u, "telegram_id_not_positive") /\ UNCHANGED <<session, users>>
           ELSE /\ session' = [session EXCEPT ![u].admin_waiting_for_telegram_id = FALSE]
                /\ IF get_user_by_telegram_id(users, telegram_id) = {}
                   THEN Say(u, "user_not_found") /\ UNCHANGED users
                   ELSE /\ users' = check_user_subscription_update(users, telegram_id)
                        /\ reply' = Msg(u, "manage_menu", subscription.type, {})
        /\ UNCHANGED <<meals, calorie_checks, now>>
        /\ UNCHANGED inflight
        /\ Observe

\* activate_premium_subscription answers True also when no row was updated
admin_activate(u, target, days) ==
    /\ IF ~is_admin(u)
       THEN Say(u, "not_admin") /\ UNCHANGED users
       ELSE /\ users' = activate_premium_subscription(users, target, days, now)
            /\ Say(u, "activated")
    /\ UNCHANGED <<session, meals, calorie_checks, now>>
    /\ UNCHANGED inflight
    /\ Observe

handle_admin_activate_trial_callback(u, target) ==
    admin_activate(u, target, TRIAL_ACTIVATION_DAYS)

handle_admin_activate_premium_callback(u, target) ==
    admin_activate(u, target, PREMIUM_ACTIVATION_DAYS)

handle_admin_deactivate_subscription_callback(u, target) ==
    /\ IF ~is_admin(u)
       THEN Say(u, "not_admin") /\ UNCHANGED users
       ELSE /\ users' = deactivate_subscription(users, target, now)
            /\ IF target \in DOMAIN users
               THEN Say(u, "deactivated") ELSE Say(u, "user_not_found")
    /\ UNCHANGED <<session, meals, calorie_checks, now>>
    /\ UNCHANGED inflight
    /\ Observe

\* ---------------------------------------------------------------- text messages
\* the dispatch of handle_text_input: admin input first, then a food text,
\* then registration
\* a dispatch that looks at the text flags before the admin wait
handle_text_input_flags_first(u, text) ==
    IF session[u].waiting_for_text \/ session[u].waiting_for_check_text
    THEN handle_food_text_analysis(u, text)
    ELSE IF session[u].admin_waiting_for_telegram_id
    THEN handle_admin_telegram_id_input(u, text)
    ELSE registration_text(u, text)

handle_text_input(u, text) ==
    IF session[u].admin_waiting_for_telegram_id
    THEN handle_admin_telegram_id_input(u, text)
    ELSE IF session[u].waiting_for_text \/ session[u].waiting_for_check_text
    THEN handle_food_text_analysis(u, text)
    ELSE registration_text(u, text)

\* ---------------------------------------------------------------- clock
Tick ==
    /\ now < MaxTime
    /\ now' = now + 1
    /\ UNCHANGED <<session, users, meals, calorie_checks, reply>>
    /\ UNCHANGED inflight
    /\ Observe

\* ---------------------------------------------------------------- inputs
Channels == {"photo", "text", "voice"}

\* "Kalorijnost: 500 kkal"
AnalysisOk == <<Tok("cal"), Num(500), Tok("kcal")>>
\* a text without a calorie count
AnalysisMiss == <<Tok("word")>>
\* "Itogo 500 kkal": valid as received, empty once the explanations are cut
AnalysisCut == <<Tok("total"), Num(500), Tok("kcal")>>

\* analyses of one or two lines, each line an optional keyword, a number
\* and then nothing, the unit, the unit and a blank, or the unit and a
\* further word; the second of two lines ends with the number or the unit.
\* And analyses of three lines: two lines of an optional keyword, a number
\* and the unit, alone or before a further word, and then a bare number
\* with its unit, so that several phrases stand before the trailing number.
ExtractTexts ==
    LET Numbers == {9, 10, 300, 10000, 10001}
        Keywords == {"none", "total_cal", "total_count", "dish_cal", "cal", "calories"}
        Tails == {<<>>, <<Tok("kcal")>>, <<Tok("kcal"), Tok("sp")>>,
                  <<Tok("kcal"), Tok("word")>>}
        Line(kw, n, tail) == (IF kw = "none" THEN <<>> ELSE <<Tok(kw)>>) \o <<Num(n)>> \o tail
        Lines(numbers, tails) ==
            {Line(kw, n, tail) : kw \in Keywords, n \in numbers, tail \in tails}
        Phrases == Lines({9, 10, 300}, {<<Tok("kcal")>>, <<Tok("kcal"), Tok("word")>>})
    IN  Lines(Numbers, Tails)
        \cup {a \o <<Tok("nl")>> \o b :
                 a \in Lines(Numbers, Tails), b \in Lines(Numbers, {<<>>, <<Tok("kcal")>>})}
        \cup {a \o <<Tok("nl")>> \o b \o <<Tok("nl"), Num(n), Tok("kcal")>> :
                 a \in Phrases, b \in Phrases, n \in {9, 10000}}

\* analyses with explanation sections: an opening (nothing, or a line with
\* the calories), up to two tokens among the headings and phrases that
\* remove_explanations_from_analysis looks for, other text, blanks and line
\* breaks, and an ending (nothing, or a phrase with a number of calories)
StripTexts ==
    LET Kinds == {"word", "nl", "sp", "h3expl", "h2expl", "h1expl", "expl", "thus", "so",
                  "in_sum", "total"}
        Heads == {<<>>, AnalysisOk}
        Bodies == {<<>>} \cup {<<Tok(a)>> : a \in Kinds}
                         \cup {<<Tok(a), Tok(b)>> : a \in Kinds, b \in Kinds}
        Ends == {<<>>, <<Tok("total_cal"), Num(300), Tok("kcal")>>, AnalysisCut}
    IN  {h \o b \o e : h \in Heads, b \in Bodies, e \in Ends}

\* descriptions: a number, a blank or none, and a spelling of the rule
\* table ("*" written as a blank or as nothing); and texts without a rule
QuantityNumbers == {<<"2">>, <<"3">>, <<"5", "0", "0">>, <<"1", ".", "5">>}
Gaps == {<<>>, <<" ">>}

RECURSIVE Spelled(_, _)
Spelled(unit, gap) ==
    IF unit = <<>> THEN <<>>
    ELSE (IF Head(unit) = "*" THEN gap ELSE <<Head(unit)>>) \o Spelled(Tail(unit), gap)

QuantityTexts ==
    {n \o g \o Spelled(QuantityPatterns[k].unit, h) :
        n \in QuantityNumbers, g \in Gaps, h \in Gaps, k \in 1..Len(QuantityPatterns)}
    \cup {<<"a", "s", "d", "f">>, <<"2">>, <<"K", "G">>, <<"2", " ", "^K", "^G">>,
          <<" ", "2", "k", "g", " ">>}

\* ---------------------------------------------------------------- system
\* The database file outlives the process: the bot starts on an empty
\* database, or on the one an earlier run left, here with the member's
\* profile, registered two days ago (the expiry was recorded then), whose
\* trial has run out.  Sessions are in memory and start empty.
OldProfile ==
    LET h == Float(70)
        d == [name |-> T70, gender |-> "Male", age |-> 70, height |-> h, weight |-> h,
              activity_level |-> "Moderate",
              daily_calories |-> calculate_daily_calories(70, h, h, "Male", "Moderate")]
        created == 0 - 2 * TicksPerDay
    IN  [NewUserRow(d, created) EXCEPT !.subscription_expires_at = {PlusDays(created, 1)}]

Init ==
    /\ session = [u \in Users |-> EmptySession]
    /\ users \in {<<>>, [u \in Actors |-> OldProfile]}
    /\ meals = EmptyBag
    /\ calorie_checks = EmptyBag
    /\ now = 0
    /\ reply = Msg(Admin, "none", "-", {})
    /\ inflight = [u \in Users |-> NoCall]
    /\ was_active = {}

\* ---------------------------------------------------------------- specifications
\* Meal logging and quick check over the channels photo and text, for one
\* member who registers with fixed answers, and the administrator who
\* switches the member's subscription; the clock stands still
NextFlows ==
    \/ \E u \in Actors : Quiet /\ register_command(u)
    \/ \E u \in Actors : Quiet /\ handle_text_input(u, T70)
    \/ \E u \in Actors : Quiet /\ handle_gender_callback(u, "Male")
    \/ \E u \in Actors : Quiet /\ handle_activity_callback(u, "Moderate", "none")
    \/ \E u \in Actors : Quiet /\ handle_analyze_photo_callback(u)
    \/ \E u \in Actors : Quiet /\ handle_analyze_text_callback(u)
    \/ \E u \in Actors : Quiet /\ addtext_command(u)
    \/ \E u \in Actors : Quiet /\ handle_check_photo_callback(u)
    \/ \E u \in Actors : Quiet /\ handle_check_text_callback(u)
    \/ \E u \in Actors : handle_photo(u)
    \/ \E u \in Actors, o \in FetchOutcomes : photo_fetched(u, o)
    \/ \E u \in Actors, r \in {NoResult, AnalysisOk} : inference_answers(u, r)
    \/ \E u \in Actors, f \in BOOLEAN : photo_resumed(u, f)
    \/ \E x \in Actors : Quiet /\ handle_admin_activate_premium_callback(Admin, x)
    \/ \E x \in Actors : Quiet /\ handle_admin_deactivate_subscription_callback(Admin, x)

SpecFlows == Init /\ [][NextFlows]_vars

\* the registration dialogue: every answer a user may type at a step, the
\* buttons of both genders and of an activity level, pressed at any step
NextRegistration ==
    \/ \E u \in Actors : register_command(u)
    \/ \E u \in Actors, text \in RegTexts : handle_text_input(u, text)
    \/ \E u \in Actors, gender \in Genders : handle_gender_callback(u, gender)
    \/ \E u \in Actors : handle_activity_callback(u, "Moderate", "none")

SpecRegistration == Init /\ [][NextRegistration]_vars

\* subscriptions over time: one registration dialogue and its faults, the
\* profile page, the subscription page, the wipe, the administrator's three buttons, and the clock
NextAccess ==
    \/ \E u \in Actors : register_command(u)
    \/ \E u \in Actors : handle_text_input(u, T70)
    \/ \E u \in Actors : handle_gender_callback(u, "Male")
    \/ \E u \in Actors, fault \in RegistrationFaults :
          handle_activity_callback(u, "Moderate", fault)
    \/ \E u \in Actors : profile_command(u)
    \/ \E u \in Actors : subscription_command(u)
    \/ \E u \in Actors : handle_statistics_callback(u)
    \/ \E u \in Actors : handle_reset_confirm(u, FALSE, FALSE)
    \/ \E a \in Users, x \in Actors : handle_admin_activate_trial_callback(a, x)
    \/ \E a \in Users, x \in Actors : handle_admin_activate_premium_callback(a, x)
    \/ \E a \in Users, x \in Actors : handle_admin_deactivate_subscription_callback(a, x)
    \/ Tick

SpecAccess == Init /\ [][NextAccess]_vars

\* The users table as the schema admits it: subscription_type, is_premium
\* and subscription_expires_at are three columns that no constraint ties
\* together, and the database file outlives the process.  Here the member's
\* row is on the premium tier, with the flag set or not and with no expiry
\* or one before, within or at the end of the run.
InitPremium ==
    /\ session = [u \in Users |-> EmptySession]
    /\ users \in {[u \in Actors |->
                     [OldProfile EXCEPT !.subscription_type = "premium",
                                        !.is_premium = flag,
                                        !.subscription_expires_at = expiry]] :
                  flag \in BOOLEAN,
                  expiry \in {{}, {0 - TicksPerDay}, {1}, {MaxTime}}}
    /\ meals = EmptyBag
    /\ calorie_checks = EmptyBag
    /\ now = 0
    /\ reply = Msg(Admin, "none", "-", {})
    /\ inflight = [u \in Users |-> NoCall]
    /\ was_active = {}

\* the premium tier over time: the profile page and the subscription page,
\* which show what check_user_subscription answers, the administrator's buttons that
\* write the tier, and the clock
NextPremium ==
    \/ \E u \in Actors : profile_command(u)
    \/ \E u \in Actors : subscription_command(u)
    \/ \E x \in Actors : handle_admin_activate_premium_callback(Admin, x)
    \/ \E x \in Actors : handle_admin_deactivate_subscription_callback(Admin, x)
    \/ Tick

SpecPremium == InitPremium /\ [][NextPremium]_vars

\* the data wipe: one member who registers, logs meals and makes quick checks
\* by text, wipes the account (either DELETE may fail) and registers again
NextWipe ==
    \/ \E u \in Actors : Quiet /\ register_command(u)
    \/ \E u \in Actors : Quiet /\ handle_text_input(u, T70)
    \/ \E u \in Actors, r \in {NoResult, AnalysisOk} : inference_answers(u, r)
    \/ \E u \in Actors : photo_resumed(u, FALSE)
    \/ \E u \in Actors : Quiet /\ handle_gender_callback(u, "Male")
    \/ \E u \in Actors : Quiet /\ handle_activity_callback(u, "Moderate", "none")
    \/ \E u \in Actors : Quiet /\ handle_analyze_text_callback(u)
    \/ \E u \in Actors : Quiet /\ handle_check_text_callback(u)
    \/ \E u \in Actors, f \in BOOLEAN, g \in BOOLEAN :
          Quiet /\ handle_reset_confirm(u, f, g)

SpecWipe == Init /\ [][NextWipe]_vars

\* the photo channel with its inference call in flight: the buttons of both
\* flows, the photo, the answer of the service (which may never come), and
\* the handler resumed by the event loop once the answer is there
NextInference ==
    \/ \E u \in Actors : Quiet /\ handle_analyze_photo_callback(u)
    \/ \E u \in Actors : Quiet /\ handle_check_photo_callback(u)
    \/ \E u \in Actors : handle_photo(u)
    \/ \E u \in Actors, o \in FetchOutcomes : photo_fetched(u, o)
    \/ \E u \in Actors, r \in {NoResult, AnalysisOk, AnalysisMiss} : inference_answers(u, r)
    \/ \E u \in Actors, f \in BOOLEAN : photo_resumed(u, f)

\* the event loop runs a handler whose awaited call has returned: a step that
\* takes a call from answered to none is a step of photo_resumed, the only
\* action that does so, and it is enabled whenever a call is answered (the
\* tables have room, see RoomLeft).  Nothing makes the service answer, so
\* inference_answers carries no fairness.
Resumed ==
    \E u \in Actors :
        /\ inflight[u].st = "answered"
        /\ inflight' = [inflight EXCEPT ![u] = NoCall]

\* get_file and the download of the photo come to an end, one way or the
\* other: a step that takes a handler from fetching to its call or to none
\* is a step of photo_fetched
Downloaded ==
    \E u \in Actors :
        /\ inflight[u].st = "fetching"
        /\ inflight' \in {[inflight EXCEPT ![u] = Fetched(inflight[u])],
                          [inflight EXCEPT ![u] = NoCall]}

SpecInference ==
    /\ Init
    /\ [][NextInference]_vars
    /\ WF_inflight(Resumed)
    /\ WF_inflight(Downloaded)

\* the quick check of a registered user over two days: the menu entry, the
\* buttons of two channels, the text that is checked, and the administrator
\* who switches the user's access on and off
NextGate ==
    \/ \E u \in Actors : Quiet /\ handle_check_calories(u)
    \/ \E u \in Actors : Quiet /\ handle_check_photo_callback(u)
    \/ \E u \in Actors : Quiet /\ handle_check_text_callback(u)
    \/ \E u \in Actors : Quiet /\ handle_text_input(u, T70)
    \/ \E u \in Actors : inference_answers(u, AnalysisOk)
    \/ \E u \in Actors : photo_resumed(u, FALSE)
    \/ \E x \in Actors : Quiet /\ handle_admin_activate_premium_callback(Admin, x)
    \/ \E x \in Actors : Quiet /\ handle_admin_deactivate_subscription_callback(Admin, x)
    \/ Tick

SpecGate == Init /\ [][NextGate]_vars

\* the profiles a completion other than the session's writes
CallProfiles ==
    LET h == Float(70)
    IN  {[name |-> T70, gender |-> g, age |-> 70, height |-> h, weight |-> h,
          activity_level |-> "Moderate",
          daily_calories |-> calculate_daily_calories(70, h, h, g, "Moderate")] :
            g \in Genders}

\* registrations of one handle that may be completed more than once: by the
\* session's own activity button, pressed again, and by create_user called
\* from elsewhere while the session is on its way; the wipe lets the handle
\* register anew
NextProfiles ==
    \/ \E u \in Actors : register_command(u)
    \/ \E u \in Actors : handle_text_input(u, T70)
    \/ \E u \in Actors, gender \in Genders : handle_gender_callback(u, gender)
    \/ \E u \in Actors : handle_activity_callback(u, "Moderate", "none")
    \/ \E u \in Actors, d \in CallProfiles, f \in BOOLEAN : create_user_call(u, d, f)
    \/ \E u \in Actors : handle_reset_confirm(u, FALSE, FALSE)
    \/ Tick

SpecProfiles == Init /\ [][NextProfiles]_vars

\* a step of the handling of an event of one chat: a command, a button, a
\* text, a photo (which no flow expects here: no button asks for one) or a
\* voice message, and what the handler of a voice message does when it
\* resumes
EventOf(u) ==
    \/ Quiet /\ register_command(u)
    \/ Quiet /\ handle_text_input(u, T70)
    \/ Quiet /\ handle_check_voice_callback(u)
    \/ handle_photo(u)
    \/ handle_voice(u)
    \/ voice_fetched(u, "ok")
    \/ \E heard \in {NoResult, T70} : transcription_answers(u, heard)
    \/ voice_transcribed(u)
    \/ inference_answers(u, AnalysisOk)
    \/ photo_resumed(u, FALSE)
    \/ Quiet /\ handle_admin_check_subscription_callback(u)
    \/ Quiet /\ handle_reset_confirm(u, FALSE, FALSE)

\* two chats, the member's and the administrator's, whose events arrive in
\* any order; main.py handles one event at a time
NextSessions == \E u \in Users : EventOf(u)

SpecSessions == Init /\ [][NextSessions]_vars

\* the meal-slot menu over two days: the member opens it, picks a slot,
\* asks for the text channel and describes a dish; the administrator gives
\* the member access
NextMenu ==
    \/ \E u \in Actors : Quiet /\ handle_add_dish(u)
    \/ \E u \in Actors : Quiet /\ add_command(u)
    \/ \E u \in Actors, meal \in MealSlots : Quiet /\ handle_meal_selection(u, meal)
    \/ \E u \in Actors : Quiet /\ handle_analyze_text_callback(u)
    \/ \E u \in Actors : Quiet /\ handle_text_input(u, T70)
    \/ \E u \in Actors : inference_answers(u, AnalysisOk)
    \/ \E u \in Actors : photo_resumed(u, FALSE)
    \/ \E x \in Actors : Quiet /\ handle_admin_activate_premium_callback(Admin, x)
    \/ Tick

SpecMenu == Init /\ [][NextMenu]_vars

\* the quick check by photo on the analyses of ExtractTexts: the button,
\* the photo, the answer of the service and the handler that reads the
\* calories off it
NextExtract ==
    \/ \E u \in Actors : Quiet /\ handle_check_photo_callback(u)
    \/ \E u \in Actors : handle_photo(u)
    \/ \E u \in Actors : photo_fetched(u, "ok")
    \/ \E u \in Actors, r \in ExtractTexts : inference_answers(u, r)
    \/ \E u \in Actors : photo_resumed(u, FALSE)

SpecExtract == Init /\ [][NextExtract]_vars

\* meal logging and quick check by photo on the analyses of StripTexts: the
\* two buttons, the photo, the answer of the service and the handler that
\* cuts the explanations off it
NextStrip ==
    \/ \E u \in Actors : Quiet /\ handle_analyze_photo_callback(u)
    \/ \E u \in Actors : Quiet /\ handle_check_photo_callback(u)
    \/ \E u \in Actors : handle_photo(u)
    \/ \E u \in Actors : photo_fetched(u, "ok")
    \/ \E u \in Actors, r \in StripTexts : inference_answers(u, r)
    \/ \E u \in Actors : photo_resumed(u, FALSE)

SpecStrip == Init /\ [][NextStrip]_vars

\* meal logging and quick check by text on the descriptions of
\* QuantityTexts: the two buttons, the text, the answer of the service and
\* the handler resumed with it
NextQuantity ==
    \/ \E u \in Actors : Quiet /\ handle_analyze_text_callback(u)
    \/ \E u \in Actors : Quiet /\ handle_check_text_callback(u)
    \/ \E u \in Actors, d \in QuantityTexts : text_received(u, d)
    \/ \E u \in Actors, r \in {NoResult, AnalysisOk} : inference_answers(u, r)
    \/ \E u \in Actors : photo_resumed(u, FALSE)

SpecQuantity == Init /\ [][NextQuantity]_vars

\* free text of the administrator against every combination of the admin
\* wait, the text flags and a registration under way
DispatchTexts == {T0, T70, T120, TWord}

NextDispatch ==
    \/ \E u \in ADMIN_IDS : Quiet /\ register_command(u)
    \/ \E u \in ADMIN_IDS : Quiet /\ handle_analyze_text_callback(u)
    \/ \E u \in ADMIN_IDS : Quiet /\ handle_check_text_callback(u)
    \/ \E u \in ADMIN_IDS : Quiet /\ handle_admin_check_subscription_callback(u)
    \/ \E u \in ADMIN_IDS, text \in DispatchTexts : Quiet /\ handle_text_input(u, text)
    \/ \E u \in ADMIN_IDS, r \in {NoResult, AnalysisOk} : inference_answers(u, r)
    \/ \E u \in ADMIN_IDS : photo_resumed(u, FALSE)

SpecDispatch == Init /\ [][NextDispatch]_vars

\* the attempts of the three channels, in both flows, with every way they
\* fail: the download, the transcription, the service, the calories
NextAttempts ==
    \/ \E u \in Actors, channel \in Channels : Quiet /\ analyze_callback(u, channel)
    \/ \E u \in Actors, channel \in Channels : Quiet /\ check_callback(u, channel)
    \/ \E u \in Actors : handle_photo(u)
    \/ \E u \in Actors, o \in FetchOutcomes : photo_fetched(u, o)
    \/ \E u \in Actors : handle_voice(u)
    \/ \E u \in Actors, o \in FetchOutcomes : voice_fetched(u, o)
    \/ \E u \in Actors : text_received(u, <<"2", " ", "K", "G">>)
    \/ \E u \in Actors, heard \in {NoResult, <<"2", " ", "K", "G">>} :
          transcription_answers(u, heard)
    \/ \E u \in Actors : voice_transcribed(u)
    \/ \E u \in Actors, r \in {NoResult, AnalysisOk, AnalysisMiss} : inference_answers(u, r)
    \/ \E u \in Actors : photo_resumed(u, FALSE)

SpecAttempts == Init /\ [][NextAttempts]_vars

\* ---------------------------------------------------------------- claims
WaitingKeys ==
    {"waiting_for_photo", "waiting_for_text", "waiting_for_voice",
     "waiting_for_check_photo", "waiting_for_check_text", "waiting_for_check_voice"}

\* the waiting flags that are up in a session
Waiting(s) == {k \in WaitingKeys : s[k]}

\* what the access gate would answer now
Active(u) == check_user_subscription(users, u, now).is_active

\* C1: in every reachable state and for every user at most one waiting flag
\* is up, and none is up while a registration step or the administrator's
\* input is pending.
C1_OneFlowAtATime ==
    \A u \in Users :
        /\ Cardinality(Waiting(session[u])) <= 1
        /\ (session[u].registration_step # "none"
              \/ session[u].admin_waiting_for_telegram_id)
           => Waiting(session[u]) = {}

\* the handler of a photo or a text resumes with an analysis that succeeded,
\* and its INSERT succeeds
Succeeds(u) ==
    /\ inflight[u].st = "answered"
    /\ inflight[u].result = AnalysisOk
    /\ photo_resumed(u, FALSE)

\* a photo or a text that was accepted only because the quick-check flag of
\* its channel was up, and whose analysis succeeds
ConsumedByQuickCheck(u) ==
    /\ Succeeds(u)
    /\ inflight[u].checking /\ ~inflight[u].adding

\* a photo or a text that was accepted only because the meal-logging flag of
\* its channel was up, whose analysis succeeds and whose INSERT succeeds
ConsumedByLogging(u) ==
    /\ Succeeds(u)
    /\ inflight[u].adding /\ ~inflight[u].checking

RowsOf(tbl, u) == BagCardinality([r \in {x \in DOMAIN tbl : x.telegram_id = u} |-> tbl[r]])

\* C2: an input consumed through the quick-check flow whose analysis succeeds
\* records one UsageEvent and inserts no MealEntry.
C2_QuickCheckNeverLogs ==
    [][\A u \in Actors :
          ConsumedByQuickCheck(u)
          => /\ RowsOf(calorie_checks', u) = RowsOf(calorie_checks, u) + 1
             /\ meals' = meals]_vars

\* C3: an input consumed through the meal-logging flow whose analysis and
\* INSERT succeed adds exactly one MealEntry of the user and no UsageEvent,
\* whatever the user did before.
C3_LoggingInsertsOneMeal ==
    [][\A u \in Actors :
          ConsumedByLogging(u)
          => /\ RowsOf(meals', u) = RowsOf(meals, u) + 1
             /\ calorie_checks' = calorie_checks]_vars

\* C4: no UsageEvent is recorded for a user who, at that moment, has no active
\* subscription and already has 3 UsageEvents dated today.
C4_QuotaOfThree ==
    [][\A u \in Actors :
          RowsOf(calorie_checks', u) > RowsOf(calorie_checks, u)
          => ~(/\ ~Active(u)
               /\ get_daily_calorie_checks_count(calorie_checks, u, now)
                    >= DAILY_CHECK_LIMIT)]_vars

\* C5: for each user, day and slot among breakfast, lunch and dinner there is
\* at most one MealEntry.
C5_OneMealPerSlotAndDay ==
    \A r \in DOMAIN meals :
        r.meal_type \in {"meal_breakfast", "meal_lunch", "meal_dinner"}
        => /\ meals[r] = 1
           /\ \A q \in DOMAIN meals :
                 (/\ q.telegram_id = r.telegram_id
                  /\ q.meal_type = r.meal_type
                  /\ DATE(q.created_at) = DATE(r.created_at)) => q = r

\* C6: a user whose subscription has been active in no state of the run so
\* far has no MealEntry.
C6_NoMealWithoutAccess ==
    \A r \in DOMAIN meals : r.telegram_id \in was_active

\* the registration steps in their order; "none" is the cursor of a session
\* that is not registering, before name and after activity
StepAfter(step) ==
    CASE step = "none" -> "name"
      [] step = "name" -> "gender"
      [] step = "gender" -> "age"
      [] step = "age" -> "height"
      [] step = "height" -> "weight"
      [] step = "weight" -> "activity"
      [] step = "activity" -> "none"

\* C7: the registration step cursor moves only to its immediate successor
\* in the order name, gender, age, height, weight, activity, complete: a step
\* that changes the cursor moves it to the next step (or abandons the
\* registration without a profile), and a profile is created only from the
\* step activity.
C7_StepsInOrder ==
    [][\A u \in Actors :
          LET a == session[u].registration_step
              b == session'[u].registration_step
              completed == u \notin DOMAIN users /\ u \in DOMAIN users'
          IN  /\ a # b => \/ b = StepAfter(a)
                          \/ b = "none" /\ ~completed
              /\ completed => a = "activity"]_vars

\* what each text spells, in thousandths, read off the text by hand: the
\* empty set for a text that is no number
Spells(text) ==
    CASE text = T0 -> {0}
      [] text = T70 -> {70000}
      [] text = T120 -> {120000}
      [] text = T300 -> {300000}
      [] text = T301 -> {301000}
      [] text = T70_5 -> {70500}
      [] text = TWord -> {}
      [] text = TVt70 -> {70000}

\* the value of a text at a step, when it is one the step accepts: an age
\* is a whole number of years, a height or a weight any decimal number
StepRange(step) ==
    CASE step = "age" -> [min |-> MIN_AGE, max |-> MAX_AGE]
      [] step = "height" -> [min |-> MIN_HEIGHT, max |-> MAX_HEIGHT]
      [] step = "weight" -> [min |-> MIN_WEIGHT, max |-> MAX_WEIGHT]

InRange(step, text) ==
    {v \in Spells(text) :
        /\ StepRange(step).min * 1000 <= v
        /\ v <= StepRange(step).max * 1000
        /\ step = "age" => v % 1000 = 0}

\* the thousandths of what a session stores for a step
StoredAt(d, step) ==
    CASE step = "age" -> {1000 * x : x \in d.age}
      [] step = "height" -> {FInt(FMul(x, Float(1000))) : x \in d.height}
      [] step = "weight" -> {FInt(FMul(x, Float(1000))) : x \in d.weight}

\* C8: at the steps age, height and weight a text inside the range of the
\* step stores its value and moves the cursor to the next step; a text out
\* of range, or not a number, changes nothing in the session and is
\* answered with the prompt of the same step.
C8_RangeChecked ==
    [][\A u \in Actors, text \in RegTexts :
          LET s == session[u]
              step == s.registration_step
          IN  (/\ step \in {"age", "height", "weight"}
               /\ handle_text_input(u, text))
              => IF InRange(step, text) # {}
                 THEN /\ session'[u].registration_step = StepAfter(step)
                      /\ StoredAt(session'[u].user_data, step) = InRange(step, text)
                      /\ \A other \in {"age", "height", "weight"} \ {step} :
                            StoredAt(session'[u].user_data, other)
                              = StoredAt(s.user_data, other)
                 ELSE /\ session' = session
                      /\ reply'.to = u
                      /\ reply'.kind = CASE step = "age" -> "bad_age"
                                          [] step = "height" -> "bad_height"
                                          [] step = "weight" -> "bad_weight"]_vars

\* an age on the upper bound of its range was stored, and the height typed
\* after it was turned down: the cursor stays on height
C8_Witness ==
    \E u \in Actors :
        /\ session[u].registration_step = "height"
        /\ session[u].user_data # NoData
        /\ session[u].user_data.age = {MAX_AGE}
        /\ session[u].user_data.height = {}
        /\ reply = Msg(u, "bad_height", "-", {})

\* C9: for every user on the trial tier and every instant, the access check
\* reports active with tier trial exactly when now <= expiry, and inactive
\* with tier trial_expired otherwise; the expiry is the recorded one or,
\* when none is recorded (the call that records it), creation plus one day.
C9_TrialByExpiry ==
    \A u \in DOMAIN users :
        users[u].subscription_type = "trial" =>
            LET recorded == users[u].subscription_expires_at
                expiry == IF recorded = {} THEN PlusDays(users[u].created_at, 1)
                          ELSE CHOOSE e \in recorded : TRUE
                answer == check_subscription_access(users, u, now)
            IN  IF now <= expiry
                THEN answer.has_access /\ answer.subscription_type = "trial"
                ELSE ~answer.has_access /\ answer.subscription_type = "trial_expired"

\* C10: from an administrator's deactivation until the next activation (the
\* row keeps the tier the deactivation wrote for exactly that long) the
\* access check reports the user inactive with an expired tier.
C10_DeactivatedMeansExpired ==
    \A u \in DOMAIN users :
        users[u].subscription_type = "trial_expired" =>
            LET answer == check_subscription_access(users, u, now)
            IN  /\ ~answer.has_access
                /\ answer.subscription_type \in {"trial_expired", "premium_expired"}

\* C11: for every user on the premium tier and every instant, the access
\* check reports active with tier premium exactly when the premium flag is
\* set and the expiry is null or not yet passed, and inactive with tier
\* premium_expired in every other case.
C11_PremiumByFlagAndExpiry ==
    \A u \in DOMAIN users :
        users[u].subscription_type = "premium" =>
            LET recorded == users[u].subscription_expires_at
                answer == check_subscription_access(users, u, now)
            IN  IF users[u].is_premium /\ \A e \in recorded : now <= e
                THEN answer.has_access /\ answer.subscription_type = "premium"
                ELSE ~answer.has_access /\ answer.subscription_type = "premium_expired"

\* a confirmed wipe of a registered user, both DELETEs carried out
Wiped(u) == u \in DOMAIN users /\ handle_reset_confirm(u, FALSE, FALSE)

\* C12: a confirmed data wipe purges the user's UsageEvents: when it
\* completes the user's count of quick checks for today is 0.
C12_WipePurgesUsage ==
    [][\A u \in Actors :
          Wiped(u) => get_daily_calorie_checks_count(calorie_checks', u, now') = 0]_vars

\* C13: after a confirmed data wipe of a registered user the profile is
\* gone, the user has no MealEntry of any date, and the session is cleared.
C13_WipeClearsProfileMealsSession ==
    [][\A u \in Actors :
          Wiped(u) => /\ get_user_by_telegram_id(users', u) = {}
                      /\ RowsOf(meals', u) = 0
                      /\ session'[u] = EmptySession]_vars

\* a wipe has just deleted a profile together with the meals logged under it
C13_Witness ==
    \E u \in Actors :
        /\ reply = Msg(u, "data_and_meals_deleted", "-", {})
        /\ get_user_by_telegram_id(users, u) = {}
        /\ RowsOf(meals, u) = 0

\* the step that ends the handling of an analysis input (a photo or a food
\* text) of a session in which exactly one flow waited for it, whatever its
\* outcome: the photo that cannot be downloaded, or the handler that resumes
\* with the answer of the service
AnalysisInput(u) ==
    \/ /\ inflight[u].st = "fetching"
       /\ inflight[u].adding # inflight[u].checking
       /\ Waiting(session[u]) = {}
       /\ \E o \in {"status", "raised"} : photo_fetched(u, o)
    \/ /\ inflight[u].st = "answered"
       /\ inflight[u].adding # inflight[u].checking
       /\ Waiting(session[u]) = {}
       /\ \E f \in BOOLEAN : photo_resumed(u, f)

\* C14: when the handling of an analysis input completes, with success or
\* with any failure, the session is idle: no waiting flag is up and the
\* check-mode flag is down.
C14_IdleAfterAnalysis ==
    [][\A u \in Actors :
          AnalysisInput(u) => /\ Waiting(session'[u]) = {}
                              /\ ~session'[u].check_mode]_vars

\* no flow of the user expects an input: no waiting flag is up, no
\* registration step and no administrator's input is pending
NothingExpected(u) ==
    /\ Waiting(session[u]) = {}
    /\ session[u].registration_step = "none"
    /\ ~session[u].admin_waiting_for_telegram_id

\* C15: a text or a photo that arrives while no flow of the user expects it
\* is answered with a message.
C15_UnexpectedInputAnswered ==
    [][\A u \in Actors :
          (/\ NothingExpected(u)
           /\ \/ handle_photo(u)
              \/ handle_text_input(u, T70))
          => reply'.to = u /\ reply'.kind # "none"]_vars

\* C17, the run the claim describes: two quick-check requests of a user
\* without access have both passed the gate on 2 UsageEvents dated today
\* and the first has brought the count to 3; the second records its
\* UsageEvent too when its input is handled, and the day ends above 3.
C17_SecondRequestRecords ==
    [][\A u \in Actors :
          (/\ u \notin was_active
           /\ get_daily_calorie_checks_count(calorie_checks, u, now) = DAILY_CHECK_LIMIT
           /\ ConsumedByQuickCheck(u))
          => get_daily_calorie_checks_count(calorie_checks', u, now')
               > DAILY_CHECK_LIMIT]_vars

\* C17, that no other run does what the claim describes either: a user who
\* has had no access at any moment never has more than 3 UsageEvents dated
\* today, in whatever order the buttons, the inputs, the answers of the
\* service and the faults of the database come.
C17_NoRunExceeds ==
    \A u \in Actors :
        u \notin was_active =>
            get_daily_calorie_checks_count(calorie_checks, u, now) <= DAILY_CHECK_LIMIT

\* the second of two requests that passed the gate on the count 2 is about
\* to be handled: its input was taken through a quick-check flag, the
\* service has answered with a valid analysis, and the first request has
\* brought the count to 3
C17_Witness ==
    \E u \in Actors :
        /\ u \notin was_active
        /\ get_daily_calorie_checks_count(calorie_checks, u, now) = DAILY_CHECK_LIMIT
        /\ inflight[u].st = "answered"
        /\ inflight[u].result = AnalysisOk
        /\ inflight[u].checking /\ ~inflight[u].adding

\* C16: every handling that has made its inference call ends, with a
\* message to the user and the session idle, also when the service never
\* answers.
C16_ProcessingEnds ==
    \A u \in Actors :
        (inflight[u] # NoCall)
          ~> (/\ inflight[u] = NoCall
              /\ Waiting(session[u]) = {}
              /\ reply.to = u /\ reply.kind # "none")

\* the waiting flag a quick-check button raises
CheckKey(channel) ==
    CASE channel = "photo" -> "waiting_for_check_photo"
      [] channel = "text" -> "waiting_for_check_text"
      [] channel = "voice" -> "waiting_for_check_voice"

\* the gate lets the user through: access, or fewer than 3 UsageEvents today
GateOpen(u) ==
    \/ Active(u)
    \/ get_daily_calorie_checks_count(calorie_checks, u, now) < DAILY_CHECK_LIMIT

\* C18: for a registered user the quick-check gate, at the menu entry and at
\* each channel button, lets the user proceed iff the access gate answers
\* active or the user has fewer than 3 UsageEvents dated today; when it
\* denies, the answer is the quota message and no session flag changes.
C18_GateByAccessOrQuota ==
    [][\A u \in Actors :
          u \in DOMAIN users =>
            /\ handle_check_calories(u)
                 => /\ reply'.to = u
                    /\ session' = session
                    /\ reply'.kind = IF GateOpen(u) THEN "check_menu" ELSE "limit_reached"
            /\ \A c \in Channels :
                 check_callback(u, c)
                 => /\ reply'.to = u
                    /\ IF GateOpen(u)
                       THEN /\ reply'.kind = "send_input"
                            /\ CheckKey(c) \in Waiting(session'[u])
                       ELSE /\ reply'.kind = "limit_reached"
                            /\ session' = session]_vars

\* a user without access, with exactly 3 UsageEvents today and no flag up,
\* has just been answered with the quota message
C18_Witness ==
    \E u \in Actors :
        /\ u \in DOMAIN users
        /\ ~Active(u)
        /\ get_daily_calorie_checks_count(calorie_checks, u, now) = DAILY_CHECK_LIMIT
        /\ reply = Msg(u, "limit_reached", check_user_subscription(users, u, now).type, {})
        /\ Waiting(session[u]) = {}

\* C19: a registration start, by command or by button, of a user who has a
\* profile is answered 'already registered' and changes neither the sessions
\* nor the profiles; of a user who has none it puts the session at the
\* registration step name.
C19_RegistrationStart ==
    [][\A u \in Actors :
          register_command(u)
          => IF u \in DOMAIN users
             THEN /\ reply' = Msg(u, "already_registered", "-", {})
                  /\ session' = session
                  /\ users' = users
             ELSE /\ session'[u].registration_step = "name"
                  /\ reply'.to = u
                  /\ users' = users]_vars

\* a user who completed the registration in this run has asked to register
\* again and has been told so
C19_Witness ==
    \E u \in Actors :
        /\ u \in DOMAIN users
        /\ users[u] # OldProfile
        /\ reply = Msg(u, "already_registered", "-", {})
        /\ session[u].registration_step = "none"

\* C20: a handle has at most one profile (the table users is keyed by
\* telegram_id, a UNIQUE NOT NULL column), also when its registration is
\* completed again: a create_user for a handle that has a row returns False
\* and leaves the table as it was, and so does the activity button that
\* completes a registration of such a handle.
C20_OneProfilePerHandle ==
    [][\A u \in Actors :
          u \in DOMAIN users =>
            /\ \A d \in CallProfiles, f \in BOOLEAN :
                  create_user_call(u, d, f)
                  => ~create_user_ok(users, u, f) /\ users' = users
            /\ handle_activity_callback(u, "Moderate", "none")
                  => users' = users]_vars

\* a session at the last step of the registration has pressed the activity
\* button while the handle already had a profile, and was told that the
\* profile could not be saved
C20_Witness ==
    \E u \in Actors :
        /\ u \in DOMAIN users
        /\ session[u].registration_step = "activity"
        /\ session[u].user_data # NoData
        /\ reply = Msg(u, "save_error", "-", {})

\* the answers a registration collects before the activity level
Answers == {"name", "gender", "age", "height", "weight"}

\* the registration data holds every answer
Supplied(d) == d # NoData /\ \A k \in Answers : d[k] # {}

\* C21: a profile comes into being only by the activity button pressed on
\* registration data that holds name, gender, age, height and weight, and
\* it holds those answers; after a completion that persisted, the session
\* has no registration step and no registration data; after one whose
\* INSERT failed, the handle has no profile and the session keeps its step
\* and its answers.
C21_ProfileByCompletion ==
    [][\A u \in Actors :
          LET s == session[u]
              d == s.user_data
          IN  /\ (u \notin DOMAIN users /\ u \in DOMAIN users')
                 => /\ Supplied(d)
                    /\ \E fault \in RegistrationFaults :
                          handle_activity_callback(u, "Moderate", fault)
                    /\ \A k \in Answers : {users'[u][k]} = d[k]
              /\ \A fault \in RegistrationFaults :
                    (/\ Supplied(d)
                     /\ u \notin DOMAIN users
                     /\ handle_activity_callback(u, "Moderate", fault))
                    => IF fault = "create_user"
                       THEN /\ u \notin DOMAIN users'
                            /\ session'[u].registration_step = s.registration_step
                            /\ \A k \in Answers : session'[u].user_data[k] = d[k]
                       ELSE /\ u \in DOMAIN users'
                            /\ session'[u].registration_step = "none"
                            /\ session'[u].user_data = NoData]_vars

\* a registration of this run was completed: the profile is there, the
\* session has neither step nor data, and the user was told so
C21_Witness ==
    \E u \in Actors :
        /\ u \in DOMAIN users
        /\ users[u].created_at >= 0
        /\ reply.to = u /\ reply.kind = "registration_complete"
        /\ session[u].registration_step = "none"
        /\ session[u].user_data = NoData

\* C22: the access check made by /profile and by the button statistics
\* writes in one case only: to a trial row without an expiry it records
\* creation + 1 day.  Any other row stays as it is, tier and premium flag
\* never change, the expiry reported by the next check is the one this
\* check reported, and a second check writes nothing.
C22_CheckWritesTrialExpiryOnly ==
    [][\A u \in Actors :
          (u \in DOMAIN users /\ (\/ profile_command(u)
                                  \/ subscription_command(u)
                                  \/ handle_statistics_callback(u)))
          => LET row == users[u]
                 first == check_user_subscription(users, u, now)
                 again == check_user_subscription(users', u, now')
             IN  /\ IF row.subscription_type = "trial" /\ row.subscription_expires_at = {}
                    THEN users' = [users EXCEPT ![u].subscription_expires_at =
                                                    {PlusDays(row.created_at, 1)}]
                    ELSE users' = users
                 /\ users'[u].subscription_type = row.subscription_type
                 /\ users'[u].is_premium = row.is_premium
                 /\ again.expires_at = first.expires_at
                 /\ check_user_subscription_update(users', u) = users']_vars

\* /profile has answered 'trial' for a row created in this run, which
\* carries creation + 1 day as its expiry although that day is over
C22_Witness ==
    \E u \in Actors :
        /\ u \in DOMAIN users
        /\ users[u].created_at >= 0
        /\ users[u].subscription_type = "trial"
        /\ users[u].subscription_expires_at = {PlusDays(users[u].created_at, 1)}
        /\ now > PlusDays(users[u].created_at, 1)
        /\ reply = Msg(u, "profile", "trial", {})

\* a trial row whose recorded expiry is the present instant
TrialEndsNow(u) ==
    /\ u \in DOMAIN users
    /\ users[u].subscription_type = "trial"
    /\ users[u].subscription_expires_at = {now}

\* C23 as stated: a trial row whose expiry is exactly now is reported
\* trial_expired and not active.
C23_ExpiredAtEquality ==
    \A u \in Actors :
        TrialEndsNow(u)
        => LET subscription == check_user_subscription(users, u, now)
           IN  ~subscription.is_active /\ subscription.type = "trial_expired"

\* C23 amended: a trial row whose expiry is exactly now is reported trial
\* and active, with that expiry; it is expired only once now is later.
C23_ActiveAtEquality ==
    \A u \in Actors :
        TrialEndsNow(u)
        => check_user_subscription(users, u, now)
             = [is_active |-> TRUE, type |-> "trial", expires_at |-> {now}]

\* /profile has answered 'trial' at the very instant the trial of a row
\* created in this run ends
C23_Witness ==
    \E u \in Actors :
        /\ TrialEndsNow(u)
        /\ users[u].created_at >= 0
        /\ reply = Msg(u, "profile", "trial", {})
        /\ now = PlusDays(users[u].created_at, 1)

\* the subscription of a profile: tier, premium flag and expiry
SubscriptionOf(row) ==
    <<row.subscription_type, row.is_premium, row.subscription_expires_at>>

\* C24: the tier, the premium flag and the expiry of a profile that a step
\* neither creates nor deletes change only by an activate or deactivate
\* button pressed by an administrator, or by the access check recording the
\* missing expiry of a trial row; a handle outside ADMIN_IDS that presses
\* those buttons is refused.
C24_OnlyAdminsChangeSubscriptions ==
    [][\A x \in Actors :
          (/\ x \in DOMAIN users /\ x \in DOMAIN users'
           /\ SubscriptionOf(users'[x]) # SubscriptionOf(users[x]))
          => \/ \E a \in ADMIN_IDS :
                   \/ handle_admin_activate_trial_callback(a, x)
                   \/ handle_admin_activate_premium_callback(a, x)
                   \/ handle_admin_deactivate_subscription_callback(a, x)
             \/ /\ users[x].subscription_type = "trial"
                /\ users[x].subscription_expires_at = {}
                /\ users' = check_user_subscription_update(users, x)]_vars

\* a registered handle outside ADMIN_IDS has pressed an administrator's
\* button and was refused
C24_Witness ==
    \E u \in Actors :
        /\ u \notin ADMIN_IDS
        /\ u \in DOMAIN users
        /\ reply = Msg(u, "not_admin", "-", {})

\* C25: the handling of an event of one chat leaves the session of every
\* other chat as it was, whatever the order in which the events of the
\* chats arrive.
C25_SessionsPartitioned ==
    [][\A a \in Users, b \in Users :
          (a # b /\ EventOf(a)) => session'[b] = session[b]]_vars

\* the member's event was handled last, and changed the member's session,
\* while the administrator's session was waiting for an input
C25_Witness ==
    /\ session[Admin].admin_waiting_for_telegram_id
    /\ session[Member].waiting_for_check_voice
    /\ session[Member].registration_step = "name"
    /\ reply.to = Member /\ reply.kind = "send_input"

\* the user has a MealEntry of the slot dated today
LoggedToday(u, slot) ==
    \E r \in DOMAIN meals :
        r.telegram_id = u /\ r.meal_type = slot /\ DATE(r.created_at) = DATE(now)

\* the meals that the buttons of a menu name: the menu of /add names the
\* four meals and the way back, each meal with the callback data addmeal
Offered(slots) ==
    IF "addmeal" \in slots
    THEN {"meal_breakfast", "meal_lunch", "meal_dinner", "meal_snack", "menu"}
    ELSE slots

\* C26: every menu of the meal slots shown to a user with access, by the
\* button add_dish or by /add, offers breakfast, lunch and dinner exactly
\* where the user has no MealEntry of the slot dated today, and always snack
\* and the way back.
C26_MenuOffersOpenSlots ==
    [][\A u \in Actors :
          (/\ Active(u)
           /\ handle_add_dish(u) \/ add_command(u)
           /\ reply'.kind = "meal_menu")
          => /\ reply'.to = u
             /\ Offered(reply'.slots) =
                  {m \in {"meal_breakfast", "meal_lunch", "meal_dinner"} :
                      ~LoggedToday(u, m)} \cup {"meal_snack", "menu"}]_vars

\* C27: when the DELETE of the profile fails in a confirmed wipe (a
\* database error, or no row to delete), the MealEntries of the user stay
\* as they were and the session is not cleared.
C27_FailedWipeChangesNothing ==
    [][\A u \in Actors, fault \in BOOLEAN, meals_fault \in BOOLEAN :
          (/\ ~delete_user_by_telegram_id_ok(users, u, fault)
           /\ handle_reset_confirm(u, fault, meals_fault))
          => /\ RowsOf(meals', u) = RowsOf(meals, u)
             /\ session'[u] = session[u]]_vars

\* the analyses the service has answered with and the handler is about to read
AnsweredTexts == {inflight[u].result : u \in {v \in Actors : inflight[v].st = "answered"}}

\* every number some match of a pattern of the list captures in the text
Captures(patterns, text) ==
    UNION {{text[NumPos(patterns[k], text, i)].n :
               i \in {h \in 1..Len(text) : MatchAt(patterns[k], text, h)}} :
           k \in 1..Len(patterns)}

\* C28: for every analysis, extract_calories_from_analysis returns None or
\* an integer from 10 to 10000; a captured number outside is not returned.
C28_ExtractedInRange ==
    \A text \in AnsweredTexts :
        \A c \in extract_calories_from_analysis(text) :
            MIN_CALORIES <= c /\ c <= MAX_CALORIES

\* the service has answered with an analysis in which a pattern captures
\* a number above the range and another the upper bound of the range: the
\* upper bound is what is read off it
C28_Witness ==
    \E text \in AnsweredTexts :
        /\ \E c \in Captures(PrimaryPatterns, text) : c > MAX_CALORIES
        /\ extract_calories_from_analysis(text) = {MAX_CALORIES}

\* a number the range of extract_calories_from_analysis accepts
Acceptable(c) == MIN_CALORIES <= c /\ c <= MAX_CALORIES

\* C29 as stated: whenever some match of a primary pattern captures a number
\* N from 10 to 10000, the result is exactly N; and when no match of any
\* pattern captures a number in that range, the result is None.
C29_AnyPrimaryNumberReturned ==
    \A text \in AnsweredTexts :
        /\ \A n \in Captures(PrimaryPatterns, text) :
              Acceptable(n) => extract_calories_from_analysis(text) = {n}
        /\ (\A n \in Captures(PrimaryPatterns, text) \cup Captures(FallbackPatterns, text) :
               ~Acceptable(n))
           => extract_calories_from_analysis(text) = {}

\* C29 amended: the result is the number that the leftmost match of the
\* first primary pattern, in the order of the list, captures in range (so
\* exactly N when N is the only number the primary patterns capture); and
\* when no match of any pattern captures a number in range, it is None.
C29_FirstPrimaryInRangeReturned ==
    \A text \in AnsweredTexts :
        /\ \A k \in 1..Len(PrimaryPatterns) :
              (/\ \E n \in re_search(PrimaryPatterns[k], text) : Acceptable(n)
               /\ \A j \in 1..(k - 1) :
                     \A n \in re_search(PrimaryPatterns[j], text) : ~Acceptable(n))
              => extract_calories_from_analysis(text) = re_search(PrimaryPatterns[k], text)
        /\ \A n \in Captures(PrimaryPatterns, text) :
              (Acceptable(n) /\ Captures(PrimaryPatterns, text) = {n})
              => extract_calories_from_analysis(text) = {n}
        /\ (\A n \in Captures(PrimaryPatterns, text) \cup Captures(FallbackPatterns, text) :
               ~Acceptable(n))
           => extract_calories_from_analysis(text) = {}

\* the service has answered with an analysis in which the first primary
\* pattern captures a number below the range and the second one a number in
\* range: the number of the second pattern is read off it
C29_Witness ==
    \E text \in AnsweredTexts :
        /\ re_search(PrimaryPatterns[1], text) = {9}
        /\ re_search(PrimaryPatterns[2], text) = {300}
        /\ extract_calories_from_analysis(text) = {300}

\* the numbers of the 'total dish' phrases of a text: "<total keyword> N kkal"
TotalDishNumbers(text) ==
    {text[i + 1].n : i \in {h \in 1..(Len(text) - 2) :
        /\ text[h].k \in {"total_cal", "total_count", "dish_cal"}
        /\ text[h + 1].k = "num"
        /\ text[h + 2].k = "kcal"}}

\* the text ends with a line that is a bare "N kkal"
BareTrailing(text) ==
    /\ Len(text) >= 3
    /\ text[Len(text)].k = "kcal"
    /\ text[Len(text) - 1].k = "num"
    /\ text[Len(text) - 2].k = "nl"

TrailingNumber(text) == text[Len(text) - 1].n

\* C30 as stated: from a text that holds a 'total dish' phrase and ends with
\* a bare 'N kcal', the number of the total-dish phrase is returned.
C30_TotalPhraseReturned ==
    \A text \in AnsweredTexts :
        (BareTrailing(text) /\ TotalDishNumbers(text) # {})
        => /\ extract_calories_from_analysis(text) # {}
           /\ extract_calories_from_analysis(text) \subseteq TotalDishNumbers(text)

\* the patterns of the 'total dish' phrases, in the order of the list
TotalKeywords == <<"total_cal", "total_count", "dish_cal">>

\* the number of the leftmost phrase "<keyword> N kkal" of a text
LeftmostTotal(kw, text) ==
    LET at == {h \in 1..(Len(text) - 2) :
                  /\ text[h].k = kw
                  /\ text[h + 1].k = "num"
                  /\ text[h + 2].k = "kcal"}
        first == CHOOSE h \in at : \A j \in at : h <= j
    IN  IF at = {} THEN {} ELSE {text[first + 1].n}

\* C30 amended: from a text that holds a 'total dish' phrase and ends with a
\* bare 'N kcal', the number of a total-dish phrase is returned, not the
\* trailing number, when the leftmost phrase of one of the three total-dish
\* patterns carries a number from 10 to 10000: the result is the number of
\* that phrase, for the first such pattern in the order of the list.  A
\* total-dish number outside 10 to 10000 is never returned.
C30_TotalPhraseInRangeReturned ==
    \A text \in AnsweredTexts :
        (BareTrailing(text) /\ TotalDishNumbers(text) # {}) =>
            LET inrange == {k \in 1..Len(TotalKeywords) :
                               \E n \in LeftmostTotal(TotalKeywords[k], text) : Acceptable(n)}
                first == CHOOSE k \in inrange : \A j \in inrange : k <= j
            IN  /\ inrange # {} =>
                      extract_calories_from_analysis(text)
                      = LeftmostTotal(TotalKeywords[first], text)
                /\ \A t \in TotalDishNumbers(text) :
                      ~Acceptable(t) => t \notin extract_calories_from_analysis(text)

\* the service has answered with an analysis of three lines: a total-dish
\* phrase of the first pattern with a number below the range, a total-dish
\* phrase of a later pattern with a number in range, and a bare 'N kcal' of
\* another number in range; the number of the second phrase is read off it
C30_Witness ==
    \E text \in AnsweredTexts :
        /\ BareTrailing(text)
        /\ Acceptable(TrailingNumber(text))
        /\ LeftmostTotal("total_cal", text) = {9}
        /\ \E t \in LeftmostTotal("dish_cal", text) :
              /\ Acceptable(t)
              /\ t # TrailingNumber(text)
              /\ extract_calories_from_analysis(text) = {t}

\* C31: cutting the explanations off an analysis that they were already cut
\* off changes nothing.
C31_StripIdempotent ==
    \A text \in AnsweredTexts :
        remove_explanations_from_analysis(remove_explanations_from_analysis(text))
        = remove_explanations_from_analysis(text)

\* the service has answered with an analysis that loses an explanation
\* section and the line breaks before it, and what is left is cut again
C31_Witness ==
    \E text \in AnsweredTexts :
        LET once == remove_explanations_from_analysis(text)
        IN  /\ \E i \in 2..Len(text) :
                  /\ text[i - 1].k = "nl"
                  /\ text[i].k \in ExplanationPatterns[4]
            /\ once # <<>>
            /\ Len(once) + 2 <= Len(text)
            /\ remove_explanations_from_analysis(once) = once

\* the patterns of the list that occur in a text, and the places where any
\* of them occurs
Occurring(text) ==
    {k \in 1..Len(ExplanationPatterns) :
        \E i \in 1..Len(text) : text[i].k \in ExplanationPatterns[k]}
Occurrences(text) ==
    {i \in 1..Len(text) : \E k \in 1..Len(ExplanationPatterns) :
        text[i].k \in ExplanationPatterns[k]}

\* C38 as stated: only the first pattern of the list that occurs in the text
\* is applied, the text being cut from its first occurrence; later patterns
\* are not applied; trailing line breaks are then trimmed.
C38_FirstListedPatternOnly ==
    \A text \in AnsweredTexts :
        remove_explanations_from_analysis(text)
        = IF Occurring(text) = {} THEN RStripNl(text)
          ELSE LET k == CHOOSE j \in Occurring(text) : \A h \in Occurring(text) : j <= h
               IN  RStripNl(CutFrom(text, ExplanationPatterns[k]))

\* C38 amended: every pattern of the list is applied, one after the other,
\* so the text is cut from the earliest place where any pattern occurs;
\* trailing line breaks are then trimmed.
C38_CutAtEarliestOccurrence ==
    \A text \in AnsweredTexts :
        remove_explanations_from_analysis(text)
        = IF Occurrences(text) = {} THEN RStripNl(text)
          ELSE LET i == CHOOSE j \in Occurrences(text) : \A h \in Occurrences(text) : j <= h
               IN  RStripNl(SubSeq(text, 1, i - 1))

\* the service has answered with an analysis in which a phrase listed late
\* stands before a heading listed first: the text is cut from the phrase
C38_Witness ==
    \E text \in AnsweredTexts :
        \E i \in 2..Len(text) :
            /\ text[i].k \in ExplanationPatterns[6]
            /\ i + 1 <= Len(text)
            /\ text[i + 1].k \in ExplanationPatterns[1]
            /\ \A j \in 1..(i - 1) : j \notin Occurrences(text)
            /\ text[i - 1].k # "nl"
            /\ remove_explanations_from_analysis(text) = SubSeq(text, 1, i - 1)

\* the calories the text shown to the user yields: the analysis with its
\* explanations cut off, read again
ShownCalories(text) ==
    extract_calories_from_analysis(remove_explanations_from_analysis(text))

\* C39: every stored meal has a calorie count from 10 to 10000; the handler
\* that resumes with an analysis stores no meal when the text it shows
\* yields no count, and records a quick check only when the text it shows
\* yields one.
C39_StoredFromShownText ==
    [][/\ \A m \in BagToSet(meals') : Acceptable(m.calories)
       /\ \A u \in Actors :
             (photo_resumed(u, FALSE) /\ ShownCalories(inflight[u].result) = {})
             => /\ meals' = meals
                /\ calorie_checks' = calorie_checks]_vars

\* C40: every stored meal and every recorded quick check belongs to a
\* handle that has a profile.
C40_RowsBelongToProfiles ==
    /\ \A m \in BagToSet(meals) : m.telegram_id \in DOMAIN users
    /\ \A c \in BagToSet(calorie_checks) : c.telegram_id \in DOMAIN users

\* the calls of analyze_food_text that are under way
TextCalls == {inflight[u] : u \in {v \in Actors :
                 inflight[v].st = "called" /\ "description" \in DOMAIN inflight[v]}}

\* the family of the k-th spelling of the rule table: its factor and unit
FamilyOf(k) ==
    CASE k \in 1..3 -> [factor |-> 1000, out |-> "g"]
      [] k \in 4..6 -> [factor |-> 1, out |-> "g"]
      [] k \in 7..9 -> [factor |-> 1000, out |-> "ml"]
      [] k \in 10..12 -> [factor |-> 1, out |-> "ml"]
      [] k \in 13..16 -> [factor |-> 100, out |-> "g"]
      [] k \in 17..19 -> [factor |-> 200, out |-> "g"]
      [] k \in 20..22 -> [factor |-> 250, out |-> "g"]
      [] k \in 23..25 -> [factor |-> 15, out |-> "g"]
      [] k \in 26..28 -> [factor |-> 5, out |-> "g"]

\* C32: a description made of a number and one of the spellings of the rule
\* table is parsed as that number converted by the family of the spelling.
C32_NumberConvertedByOwnFamily ==
    \A c \in TextCalls :
        \A n \in QuantityNumbers, g \in Gaps, h \in Gaps, k \in 1..Len(QuantityPatterns) :
            c.description = n \o g \o Spelled(QuantityPatterns[k].unit, h)
            => /\ c.quantity = FMul(py_float(n).val, Float(FamilyOf(k).factor))
               /\ c.unit = FamilyOf(k).out

\* C33: '2 kg' is parsed as 2000 g, '500 ml' as 500 ml, '3 pieces' as
\* 300 g, and a description that no rule matches (it holds no digit, as
\* 'asdf', or no spelling of the table) as the default of 100 g.
C33_ExamplesAndDefault ==
    \A c \in TextCalls :
        /\ c.description = <<"2", " ", "K", "G">>
           => c.quantity = Float(2000) /\ c.unit = "g"
        /\ c.description = <<"5", "0", "0", " ", "M", "L">>
           => c.quantity = Float(500) /\ c.unit = "ml"
        /\ c.description = <<"3", " ", "W", "T">>
           => c.quantity = Float(300) /\ c.unit = "g"
        /\ ((\A i \in 1..Len(c.description) : c.description[i] \notin Digit)
            \/ c.description \in QuantityNumbers)
           => c.quantity = Float(100) /\ c.unit = "g"

\* the text 'asdf' was sent in a text flow and the call carries 100 g
C33_Witness ==
    \E c \in TextCalls :
        /\ c.description = <<"a", "s", "d", "f">>
        /\ c.quantity = Float(100)
        /\ c.unit = "g"

\* what each of the four branches of the dispatch answers
AdminAnswers ==
    {"not_admin", "bad_telegram_id", "telegram_id_not_positive", "user_not_found",
     "manage_menu"}
AnalysisAnswers == {"processing"}
RegistrationAnswers ==
    {"ask_gender", "bad_age", "ask_height", "bad_height", "ask_weight", "bad_weight",
     "ask_activity", "none"}

\* C34: a text goes to the admin handler when the admin wait is set,
\* whatever else is set; otherwise to the analysis when a text flag is up
\* (the flags go down and the call to the service is made); otherwise to
\* the registration when a step is present; otherwise it is answered as an
\* idle message; and only that branch acts.
C34_DispatchByPriority ==
    [][\A u \in Users, text \in DispatchTexts :
          handle_text_input(u, text) =>
            LET s == session[u]
                t == session'[u]
                flags == s.waiting_for_text \/ s.waiting_for_check_text
            IN  IF s.admin_waiting_for_telegram_id
                THEN /\ reply'.kind \in AdminAnswers
                     /\ t.waiting_for_text = s.waiting_for_text
                     /\ t.waiting_for_check_text = s.waiting_for_check_text
                     /\ t.registration_step = s.registration_step
                     /\ t.user_data = s.user_data
                     /\ UNCHANGED <<meals, calorie_checks, inflight>>
                ELSE IF flags
                THEN /\ reply'.kind \in AnalysisAnswers
                     /\ inflight'[u].st = "called"
                     /\ inflight'[u].description = text
                     /\ ~t.waiting_for_text /\ ~t.waiting_for_check_text
                     /\ t.registration_step = s.registration_step
                     /\ t.user_data = s.user_data
                     /\ UNCHANGED users
                ELSE IF s.registration_step # "none"
                THEN /\ reply'.kind \in RegistrationAnswers
                     /\ UNCHANGED <<users, meals, calorie_checks, inflight>>
                ELSE /\ reply'.kind = "use_start"
                     /\ UNCHANGED <<session, users, meals, calorie_checks, inflight>>]_vars

\* the administrator, asked for an identifier while a text flag is up and a
\* registration is under way, has sent a text: the admin handler answered
\* it, and the flag and the step are as they were
C34_Witness ==
    /\ reply.to = Admin
    /\ reply.kind = "bad_telegram_id"
    /\ session[Admin].admin_waiting_for_telegram_id
    /\ session[Admin].waiting_for_text
    /\ session[Admin].registration_step = "name"

\* the text is the spelling of a positive integer
PositiveInteger(text) == py_int(text).ok /\ py_int(text).val > 0

\* C35 as stated: while the administrator is asked for an identifier, a text
\* that is a positive integer ends the wait and shows the subscription
\* management view of that user; any other text leaves the session as it
\* is and asks again.
C35_NumberOpensManagement ==
    [][\A u \in ADMIN_IDS, text \in DispatchTexts :
          (session[u].admin_waiting_for_telegram_id /\ handle_text_input(u, text))
          => IF PositiveInteger(text)
             THEN /\ ~session'[u].admin_waiting_for_telegram_id
                  /\ reply'.kind = "manage_menu"
             ELSE /\ session' = session
                  /\ reply'.kind \in {"bad_telegram_id", "telegram_id_not_positive"}]_vars

\* C35 amended: a text that is a positive integer ends the wait, and shows
\* the subscription management view when that user has a profile, a 'user
\* not found' message when not; any other text leaves the session as it is
\* and asks again.
C35_NumberEndsWait ==
    [][\A u \in ADMIN_IDS, text \in DispatchTexts :
          (session[u].admin_waiting_for_telegram_id /\ handle_text_input(u, text))
          => IF PositiveInteger(text)
             THEN /\ session' = [session EXCEPT ![u].admin_waiting_for_telegram_id = FALSE]
                  /\ reply'.kind = IF py_int(text).val \in DOMAIN users
                                   THEN "manage_menu" ELSE "user_not_found"
             ELSE /\ session' = session
                  /\ reply'.kind \in {"bad_telegram_id", "telegram_id_not_positive"}]_vars

\* the administrator, asked for an identifier, has sent the one of the
\* member: the management view is shown and the wait is over
C35_Witness ==
    /\ reply.to = Admin
    /\ reply.kind = "manage_menu"
    /\ Member \in DOMAIN users
    /\ ~session[Admin].admin_waiting_for_telegram_id

\* C36: a waiting flag of the logging flow goes up only when a meal slot
\* was selected before, and a meal is stored only with a slot that was
\* selected (never the default slot).
C36_SlotSelectedBeforeInput ==
    [][\A u \in Actors :
          LET s == session[u]
              t == session'[u]
              raised == \/ t.waiting_for_photo /\ ~s.waiting_for_photo
                        \/ t.waiting_for_text /\ ~s.waiting_for_text
                        \/ t.waiting_for_voice /\ ~s.waiting_for_voice
          IN  /\ raised => s.selected_meal # "none"
              /\ RowsOf(meals', u) > RowsOf(meals, u) => s.selected_meal # "none"]_vars

\* an answer of the service that is a failure: nothing usable, or a text
\* that no calorie count can be read off
FailedAnalysis(result) ==
    result = NoResult \/ extract_calories_from_analysis(result) = {}

\* C37: a failed attempt (download, transcription, service, calories) stores
\* no meal and records no quick check and ends the handling; the service
\* is called only when an input arrives and, for a voice message, once more
\* after a transcription that gave words; nothing is called again after an
\* answer to the analysis or after a failed transcription.
C37_FailureStoresNothingNoRetry ==
    [][\A u \in Actors :
          LET before == inflight[u]
              after == inflight'[u]
              failed == \/ photo_resumed(u, FALSE) /\ FailedAnalysis(before.result)
                        \/ voice_transcribed(u) /\ before.result = NoResult
                        \/ \E o \in {"status", "raised"} : photo_fetched(u, o)
                        \/ \E o \in {"status", "raised"} : voice_fetched(u, o)
              arrived == before.st = "none" \/ before.st = "fetching"
              newcall == after.st \in {"called", "transcribing"} /\ after.st # before.st
          IN  /\ failed => /\ UNCHANGED <<meals, calorie_checks>>
                           /\ after.st = "none"
              /\ (before.st = "none" /\ after.st = "fetching") =>
                    UNCHANGED <<meals, calorie_checks>>
              /\ newcall =>
                    IF after.st = "transcribing" THEN arrived
                    ELSE \/ arrived
                         \/ before.st = "transcribed" /\ before.result # NoResult
              /\ (before.st = "answered" /\ after # before) => after.st = "none"]_vars

\* a voice message was sent in a flow, its transcription failed, and the
\* handling ended with no call under way and nothing stored
C37_Witness ==
    /\ reply = Msg(Member, "transcription_error", "-", {})
    /\ inflight[Member].st = "none"
    /\ ~session[Member].waiting_for_voice
    /\ ~session[Member].waiting_for_check_voice
    /\ meals = EmptyBag
    /\ calorie_checks = EmptyBag

====
